---- MODULE Spec2Model ----
(***************************************************************************)
(* Insight, Validation & Drift Engine of the agentic FB performance        *)
(* analyst: the resilient call wrapper (utils/safety.py), the insight      *)
(* generator (agents/insight_agent.py), the evaluator                      *)
(* (agents/evaluator_agent.py) and the drift detector                      *)
(* (utils/drift_detector.py).                                              *)
(*                                                                         *)
(* Numbers.  Python floats are modelled as integers: metric values and     *)
(* confidences in hundredths (10.0 is 1000, 0.95 is 95), relative changes  *)
(* and the thresholds they are compared with in thousandths (-0.40 is      *)
(* -400); spend and counts are whole units.  Every comparison of the code  *)
(* is made exactly, by cross-multiplication.                               *)
(* Python values.  A value is a record [t |-> tag, v |-> payload]: tag     *)
(* "num" (int or float), "none" (None), "str", "list", "dict".  A Python   *)
(* dict with string keys is a TLA+ function whose DOMAIN is the set of     *)
(* keys present.                                                           *)
(***************************************************************************)
EXTENDS Integers, Sequences, FiniteSets, TLC

VARIABLES
    \* ---- safe_call (utils/safety.py) ----
    max_retries,     \* decorator argument
    base_delay,      \* decorator argument, in tenths of a second
    fallback,        \* decorator argument
    sc_pc,           \* position of wrapper: "idle", "attempt", "done"
    attempt,         \* loop variable of wrapper
    last_exception,  \* local of wrapper
    calls,           \* the invocations of func made so far: <<[attempt, args]>>
    sleeps,          \* the time.sleep calls made so far, in order
    outcome          \* how wrapper ended

scVars == <<max_retries, base_delay, fallback, sc_pc, attempt, last_exception,
            calls, sleeps, outcome>>

VARIABLES
    \* ---- InsightAgent.generate / EvaluatorAgent.validate ----
    summary,         \* the PeriodSummary handed to generate
    insights,        \* the object generate returned (later handed to validate)
    decision_logs,   \* InsightAgent.decision_logs
    validated,       \* the outcome of validate
    gen_error,       \* the exception generate's except clause caught, or None
    ia_pc            \* "ready", "generated", "validated"

iaVars == <<summary, insights, decision_logs, validated, gen_error, ia_pc>>

VARIABLES
    \* ---- DriftDetector (utils/drift_detector.py) ----
    baseline_file,   \* the persisted baseline file
    baseline,        \* DriftDetector.baseline
    drift,           \* the report detect_drift returned last
    detect_baseline, \* DriftDetector.baseline as that call of detect_drift saw it
    detect_current,  \* the current_stats that call of detect_drift was given
    save_call,       \* the last save_baseline call: its stats, and the file and
                     \* the in-memory baseline it found
    saves,           \* the number of save_baseline calls made so far
    save_result,     \* what save_baseline returned last
    dd_pc            \* "new" before construction, "ready" after

ddVars == <<baseline_file, baseline, drift, detect_baseline, detect_current,
            save_call, saves, save_result,
            dd_pc>>

VARIABLES
    \* ---- SchemaValidator and the schema upgrade ----
    sch_kind,        \* "insights" or "creatives": which pair of functions
    sch_input,       \* the document handed in
    sch_doc,         \* the document as it is now (the upgrade's result, once upgraded)
    sch_upgrade,     \* how the upgrade ended, None while it was not called
    sch_verdict,     \* (is_valid, errors) of the last validation
    sch_pc           \* "ready", "upgraded", "raised", "validated"

svVars == <<sch_kind, sch_input, sch_doc, sch_upgrade, sch_verdict, sch_pc>>

VARIABLES
    \* ---- EvaluatorAgent._calculate_severity ----
    sev_evidence,    \* the evidence mapping handed in
    sev_result,      \* what the call returned or raised
    sev_pc           \* "ready", "done"

csVars == <<sev_evidence, sev_result, sev_pc>>

VARIABLES
    \* ---- main (orchestrator/run.py) ----
    pl_pc,                   \* position of main
    enable_drift_detection,  \* argument of main
    plan,                    \* local of main
    creatives,               \* local of main
    events,                  \* what this run did so far, in order
    runs,                    \* the number of runs started
    run_start,               \* the baseline file and the detector's baseline
                             \* as construction left them
    abort_cause,             \* the exception that left main, None otherwise
    stage_log                \* how each wrapped stage of this run ended

plVars == <<pl_pc, enable_drift_detection, plan, creatives, events, runs,
            run_start, abort_cause, stage_log>>

VARIABLES
    \* ---- calls of the pure functions ----
    fn_call          \* the last call: the function, its arguments, its result

fnVars == <<fn_call>>

vars == <<scVars, iaVars, ddVars, svVars, csVars, plVars, fnVars>>

(***************************************************************************)
(* Bounds of the model.                                                    *)
(***************************************************************************)
MaxRetries == 3

\* ==== Python value helpers =============================================
Num(n)   == [t |-> "num", v |-> n]
None     == [t |-> "none", v |-> 0]
Str(s)   == [t |-> "str", v |-> s]
IsNum(x) == x.t = "num"

RECURSIVE Pow2(_)
Pow2(n) == IF n <= 0 THEN 1 ELSE 2 * Pow2(n - 1)

\* ==== safe_call ========================================================
\* The values a caller may pass as fallback: not supplied (None, the
\* default), falsy objects ({} and 0) and a truthy object.
Fallbacks == {None, [t |-> "dict", v |-> 0], Num(0), [t |-> "dict", v |-> 1]}

\* base_delay values, tenths of a second: 0.5 s is the default (safety.py:60).
BaseDelays == {-5, 0, 5, 10}

\* Truthiness of a Python value (bool(x)).
Truthy(x) ==
    CASE x.t = "none" -> FALSE
      [] x.t = "num"  -> x.v /= 0
      [] x.t = "dict" -> x.v /= 0      \* v is the number of keys
      [] x.t = "list" -> x.v /= 0
      [] OTHER        -> TRUE

\* mutant of FallbackSupplied: `if fallback:` (truthiness)
FallbackSupplied_Truthy(f) == Truthy(f)

\* safety.py:121  `if fallback is not None:`
FallbackSupplied(f) == f /= None

\* mutant of BackoffDelay: linear instead of exponential backoff
BackoffDelay_Linear(bd, a) == bd * (a + 1)

\* safety.py:106  delay = base_delay * (2 ** attempt)
BackoffDelay(bd, a) == bd * Pow2(a)

\* time.sleep(d) raises ValueError for a negative d.
SleepRaises(d) == d < 0

\* what one invocation of func does: return a value, raise an Exception,
\* or raise a BaseException that is no Exception (KeyboardInterrupt, ...).
OpValue(a) == Str("value") @@ [at |-> a]
OpExc(a)   == [t |-> "exc", v |-> a]
TheArgs    == Str("args")

\* ---- the state of a component that a specification does not exercise ----
ScIdle ==
    /\ max_retries = 0 /\ base_delay = 0 /\ fallback = None /\ sc_pc = "off"
    /\ attempt = 0 /\ last_exception = None /\ calls = <<>> /\ sleeps = <<>>
    /\ outcome = [kind |-> "running"]

IaIdle ==
    /\ summary = None /\ insights = None /\ decision_logs = <<>>
    /\ validated = None /\ gen_error = None /\ ia_pc = "off"

DdIdle ==
    /\ baseline_file = None /\ baseline = None /\ drift = None
    /\ detect_baseline = None /\ detect_current = None /\ save_call = None
    /\ saves = 0 /\ save_result = None
    /\ dd_pc = "off"

SvIdle ==
    /\ sch_kind = "off" /\ sch_input = None /\ sch_doc = None
    /\ sch_upgrade = None /\ sch_verdict = None /\ sch_pc = "off"

CsIdle ==
    /\ sev_evidence = None /\ sev_result = None /\ sev_pc = "off"

PlIdle ==
    /\ pl_pc = "off" /\ enable_drift_detection = FALSE /\ plan = None
    /\ creatives = None /\ events = <<>> /\ runs = 0 /\ run_start = None
    /\ abort_cause = None /\ stage_log = <<>>

FnIdle == fn_call = None

SafeCallInit ==
    /\ IaIdle /\ DdIdle /\ SvIdle /\ CsIdle /\ PlIdle /\ FnIdle
    /\ max_retries \in 0..MaxRetries
    /\ base_delay \in BaseDelays
    /\ fallback \in Fallbacks
    /\ sc_pc = "idle"
    /\ attempt = 0
    /\ last_exception = None
    /\ calls = <<>>
    /\ sleeps = <<>>
    /\ outcome = [kind |-> "running"]

\* safety.py:90-93  wrapper is entered: last_exception = None, the loop starts.
Call ==
    /\ sc_pc = "idle"
    /\ sc_pc' = "attempt"
    /\ attempt' = 0
    /\ last_exception' = None
    /\ UNCHANGED <<max_retries, base_delay, fallback, calls, sleeps, outcome, iaVars, ddVars, svVars, csVars, plVars, fnVars>>

\* safety.py:95  result = func(*args, **kwargs); r is what func did:
\* "ok" (returned), "exc" (raised an Exception), "base" (raised a
\* BaseException that is no Exception).
Invoke(r) ==
    calls' = Append(calls, [attempt |-> attempt, args |-> TheArgs, result |-> r])

\* safety.py:95-100  func returns: wrapper returns its result.
AttemptSucceeds ==
    /\ sc_pc = "attempt"
    /\ Invoke("ok")
    /\ outcome' = [kind |-> "returned", value |-> OpValue(attempt)]
    /\ sc_pc' = "done"
    /\ UNCHANGED <<max_retries, base_delay, fallback, attempt, last_exception, sleeps, iaVars, ddVars, svVars, csVars, plVars, fnVars>>

\* safety.py:102-113  func raises an Exception and attempt < max_retries:
\* sleep, then the next iteration.  An exception of time.sleep is raised
\* inside the except clause and leaves wrapper.
AttemptFailsRetry ==
    /\ sc_pc = "attempt"
    /\ attempt < max_retries
    /\ Invoke("exc")
    /\ last_exception' = OpExc(attempt)
    /\ LET delay == BackoffDelay(base_delay, attempt) IN
       IF SleepRaises(delay)
       THEN /\ outcome' = [kind |-> "raised", type |-> "ValueError",
                           cause |-> None]
            /\ sc_pc' = "done"
            /\ UNCHANGED <<attempt, sleeps>>
       ELSE /\ sleeps' = Append(sleeps, delay)
            /\ attempt' = attempt + 1
            /\ UNCHANGED <<sc_pc, outcome>>
    /\ UNCHANGED <<max_retries, base_delay, fallback, iaVars, ddVars, svVars, csVars, plVars, fnVars>>

\* safety.py:102-105,114-129  func raises an Exception on the last attempt:
\* the loop ends; the fallback is returned or error_type is raised from
\* last_exception.
AttemptFailsLast ==
    /\ sc_pc = "attempt"
    /\ ~(attempt < max_retries)
    /\ Invoke("exc")
    /\ last_exception' = OpExc(attempt)
    /\ outcome' = IF FallbackSupplied(fallback)
                  THEN [kind |-> "returned", value |-> fallback]
                  ELSE [kind |-> "raised", type |-> "error_type",
                        cause |-> OpExc(attempt)]
    /\ sc_pc' = "done"
    /\ UNCHANGED <<max_retries, base_delay, fallback, attempt, sleeps, iaVars, ddVars, svVars, csVars, plVars, fnVars>>

\* safety.py:102  `except Exception` does not catch a BaseException such as
\* KeyboardInterrupt: it leaves wrapper at once.
AttemptInterrupted ==
    /\ sc_pc = "attempt"
    /\ Invoke("base")
    /\ outcome' = [kind |-> "raised", type |-> "BaseException", cause |-> None]
    /\ sc_pc' = "done"
    /\ UNCHANGED <<max_retries, base_delay, fallback, attempt, last_exception, sleeps, iaVars, ddVars, svVars, csVars, plVars, fnVars>>

SafeCallNext ==
    \/ Call
    \/ AttemptSucceeds
    \/ AttemptFailsRetry
    \/ AttemptFailsLast
    \/ AttemptInterrupted

SpecSafeCall == SafeCallInit /\ [][SafeCallNext]_vars

\* ---- claims about safe_call ------------------------------------------
\* the attempts that raised an Exception while a retry was still allowed
RetriedAttempts == {i \in 1..Len(calls) :
                      calls[i].result = "exc" /\ calls[i].attempt < max_retries}

\* the retry protocol, whatever base_delay is
RetryProtocol ==
    /\ Len(calls) <= max_retries + 1
    /\ \A i \in 1..Len(calls) :
          /\ calls[i].attempt = i - 1
          /\ calls[i].args = TheArgs
          /\ (i < Len(calls) => calls[i].result = "exc")
    /\ Len(sleeps) = Cardinality(RetriedAttempts)
    /\ \A j \in 1..Len(sleeps) : sleeps[j] = base_delay * Pow2(j - 1)
    /\ (Len(calls) > 0 /\ calls[Len(calls)].result = "ok")
          => /\ sc_pc = "done"
             /\ outcome = [kind |-> "returned", value |-> OpValue(Len(calls) - 1)]

\* C1 (as stated): for any max_retries >= 0 and ANY base_delay, the wrapper
\* invokes the operation with the same arguments on attempts 0,1,2,...,
\* at most max_retries+1 times, stops at the first success and returns its
\* value, and every failed attempt i < max_retries is followed by exactly
\* one sleep of base_delay*2^i; no sleep follows attempt max_retries.
C1_RetryProtocolAnyDelay == RetryProtocol

\* C1 (amended): the same protocol for every base_delay >= 0, a failed
\* attempt being one that raised an Exception.  (A negative base_delay makes
\* time.sleep raise ValueError inside the except clause: the wrapper ends
\* after the first failed attempt without sleeping or retrying.)
C1_RetryProtocol == base_delay >= 0 => RetryProtocol

\* C1 witness: two failures then a success, with the default 0.5 s delay:
\* the success value comes back after sleeps of 0.5 s and 1.0 s.
C1_Witness ==
    /\ sc_pc = "done"
    /\ base_delay = 5
    /\ Len(calls) = 3
    /\ outcome = [kind |-> "returned", value |-> OpValue(2)]
    /\ sleeps = <<5, 10>>

\* every attempt was made and every one raised an Exception
Exhausted ==
    /\ Len(calls) = max_retries + 1
    /\ \A i \in 1..Len(calls) : calls[i].result = "exc"

\* C2: when all max_retries+1 attempts fail, the wrapper returns the
\* fallback if one was supplied (any value other than None, falsy ones
\* included) and raises nothing; otherwise it raises error_type whose cause
\* is the exception of the last attempt.  Nothing else can happen.
C2_FinalFailure ==
    Exhausted =>
        /\ sc_pc = "done"
        /\ outcome = IF fallback /= None
                     THEN [kind |-> "returned", value |-> fallback]
                     ELSE [kind |-> "raised", type |-> "error_type",
                           cause |-> OpExc(max_retries)]

\* C2 witness: exhaustion with the falsy fallback {} returns {}.
C2_Witness ==
    /\ Exhausted
    /\ max_retries = 2
    /\ fallback = [t |-> "dict", v |-> 0]
    /\ outcome = [kind |-> "returned", value |-> fallback]


\* ==== Python dict and list helpers ====================================
\* d.get(k, default)
Get(d, k, default) == IF k \in DOMAIN d THEN d[k] ELSE default
\* the empty dict {}
EmptyDict == [k \in {} |-> None]
\* a modelled dict (a function over its keys) as opposed to a tagged value
IsDict(x) == "t" \notin DOMAIN x
Abs(n) == IF n < 0 THEN -n ELSE n
Min(a, b) == IF a <= b THEN a ELSE b
Max(a, b) == IF a >= b THEN a ELSE b

RECURSIVE SumSeq(_)
SumSeq(s) == IF s = <<>> THEN 0 ELSE Head(s) + SumSeq(Tail(s))

RECURSIVE SortInts(_)
\* ascending sort of a sequence of integers (np.percentile sorts its input)
SortInts(s) ==
    IF Len(s) <= 1 THEN s
    ELSE LET m    == CHOOSE i \in 1..Len(s) : \A j \in 1..Len(s) : s[i] <= s[j]
             rest == [k \in 1..(Len(s) - 1) |-> IF k < m THEN s[k] ELSE s[k + 1]]
         IN  <<s[m]>> \o SortInts(rest)

\* round(x / d) to the nearest integer, ties to even (Python round())
RoundDiv(x, d) ==
    LET q == x \div d
        r == x % d
    IN  IF 2 * r < d THEN q
        ELSE IF 2 * r > d THEN q + 1
        ELSE IF q % 2 = 0 THEN q ELSE q + 1

\* ==== InsightAgent (agents/insight_agent.py) ===========================
\* __init__ defaults, in hundredths
min_confidence == 40
max_confidence == 95

\* the numeric members of a sample, as integers:
\* [v for v in values if v is not None and isinstance(v, (int, float))]
NumericOnly(values) ==
    LET nums == SelectSeq(values, LAMBDA v : IsNum(v))
    IN  [i \in 1..Len(nums) |-> nums[i].v]

\* 10 * np.percentile(arr, 10*q) of an ascending sample (linear
\* interpolation between the two nearest ranks), q in tenths
Percentile10(sorted, q) ==
    LET k  == q * (Len(sorted) - 1)
        lo == (k \div 10) + 1
        r  == k % 10
    IN  IF r = 0 THEN 10 * sorted[lo]
        ELSE 10 * sorted[lo] + r * (sorted[lo + 1] - sorted[lo])

\* InsightAgent._detect_outliers with use_percentile_method = True:
\* keep the values within [p10, p90]
detect_outliers(values) ==
    IF Len(values) < 2 THEN [filtered |-> values, num_removed |-> 0]
    ELSE LET arr == NumericOnly(values) IN
         IF Len(arr) = 0 THEN [filtered |-> <<>>, num_removed |-> 0]
         ELSE LET srt  == SortInts(arr)
                  p90  == Percentile10(srt, 9)
                  p10  == Percentile10(srt, 1)
                  kept == SelectSeq(arr, LAMBDA v : p10 <= 10 * v /\ 10 * v <= p90)
              IN  [filtered    |-> [i \in 1..Len(kept) |-> Num(kept[i])],
                   num_removed |-> Len(arr) - Len(kept)]

\* the thresholds of _compute_adaptive_threshold, in thousandths
DefaultThreshold  == 100
StrictThreshold   == 80
StandardThreshold == 100
RelaxedThreshold  == 150

\* mutant of compute_adaptive_threshold: `<=` instead of `<` at both bands
compute_adaptive_threshold_Inclusive(values) ==
    LET arr == NumericOnly(values)
        n   == Len(arr)
        S   == SumSeq(arr)
        Q   == SumSeq([i \in 1..n |-> arr[i] * arr[i]])
        V   == n * Q - S * S
    IN  IF n < 2 THEN DefaultThreshold
        ELSE IF S = 0 THEN DefaultThreshold
        ELSE IF 100 * V <= S * S THEN StrictThreshold
        ELSE IF 100 * V <= 9 * S * S THEN StandardThreshold
        ELSE RelaxedThreshold

\* InsightAgent._compute_adaptive_threshold: CV = std / |mean| of the
\* numeric values; with n values of sum S and sum of squares Q,
\* CV < c  <=>  n*Q - S*S < c*c * S*S.
compute_adaptive_threshold(values) ==
    LET arr == NumericOnly(values)
        n   == Len(arr)
        S   == SumSeq(arr)
        Q   == SumSeq([i \in 1..n |-> arr[i] * arr[i]])
        V   == n * Q - S * S
    IN  IF n < 2 THEN DefaultThreshold
        ELSE IF S = 0 THEN DefaultThreshold
        ELSE IF 100 * V < S * S THEN StrictThreshold
        ELSE IF 100 * V < 9 * S * S THEN StandardThreshold
        ELSE RelaxedThreshold

\* mutant of calculate_confidence: the boosts are added without a cap and
\* the result is not clamped
calculate_confidence_Unclamped(change_pct, threshold, is_outlier_removed, evidence_count) ==
    IF change_pct = None THEN min_confidence * 100 * threshold
    ELSE
    LET m    == Abs(change_pct.v)
        T    == threshold
        base == IF m < T THEN 4000 * T + 2000 * m
                ELSE IF m < 2 * T THEN 6000 * T + 1500 * (m - T)
                ELSE 7500 * T + (IF 10 * (m - 2 * T) >= 4 * T
                                 THEN 400 * T
                                 ELSE 1000 * (m - 2 * T))
        b1   == IF is_outlier_removed THEN base + 500 * T ELSE base
    IN  IF evidence_count > 1 THEN b1 + (evidence_count - 1) * 200 * T ELSE b1

\* InsightAgent._calculate_confidence, as the exact rational
\* confidence * 10000 * threshold (change and threshold in thousandths)
calculate_confidence(change_pct, threshold, is_outlier_removed, evidence_count) ==
    IF change_pct = None THEN min_confidence * 100 * threshold
    ELSE
    LET m    == Abs(change_pct.v)
        T    == threshold
        cap  == max_confidence * 100 * T
        base == IF m < T THEN 4000 * T + 2000 * m
                ELSE IF m < 2 * T THEN 6000 * T + 1500 * (m - T)
                ELSE 7500 * T + (IF 10 * (m - 2 * T) >= 4 * T
                                 THEN 400 * T
                                 ELSE 1000 * (m - 2 * T))
        b1   == IF is_outlier_removed THEN Min(cap, base + 500 * T) ELSE base
        b2   == IF evidence_count > 1
                THEN Min(cap, b1 + Min(1000 * T, (evidence_count - 1) * 200 * T))
                ELSE b1
    IN  Max(min_confidence * 100 * T, Min(cap, b2))

\* "high" if confidence > 0.7 else "moderate" if confidence > 0.5 else "low",
\* on the unrounded confidence (insight_agent.py:291, 357)
confidence_level(conf, T) ==
    IF conf > 7000 * T THEN "high"
    ELSE IF conf > 5000 * T THEN "moderate"
    ELSE "low"

\* what a step of the code yields: a value, or a raised exception
Ok(x)      == [raised |-> FALSE, value |-> x]
Raise(msg) == [raised |-> TRUE, msg |-> msg]

\* mutant of RoasDeclineTag: `<=` instead of `<`
RoasDeclineTag_Inclusive(rel) ==
    IF rel <= -400 THEN <<"severe_performance_degradation">>
    ELSE IF rel <= -200 THEN <<"moderate_performance_decline">>
    ELSE <<>>

\* insight_agent.py:187-190  the decline tag of a return-on-ad-spend drop
RoasDeclineTag(rel) ==
    IF rel < -400 THEN <<"severe_performance_degradation">>
    ELSE IF rel < -200 THEN <<"moderate_performance_decline">>
    ELSE <<>>

\* InsightAgent._diagnose_root_cause: the tags, joined by " | " in the code,
\* as a sequence; a comparison with a non-number raises TypeError
diagnose_root_cause(item, metric_type) ==
    IF metric_type = "roas" THEN
        LET relative_delta == Get(item, "relative_delta", Num(0))
            spend          == Get(item, "spend", Num(0))
        IN  IF ~IsNum(relative_delta) THEN Raise("TypeError")
            ELSE IF ~IsNum(spend) THEN Raise("TypeError")
            ELSE LET tags1 == RoasDeclineTag(relative_delta.v)
                     tags2 == IF spend.v > 5000
                              THEN <<"high_spend_inefficiency">> ELSE <<>>
                     tags  == tags1 \o tags2
                 IN  Ok(IF tags = <<>> THEN <<"performance_variance">> ELSE tags)
    ELSE IF metric_type = "ctr" THEN
        LET relative_delta     == Get(item, "relative_delta", Num(0))
            impressions_change == Get(item, "impressions_change", Num(0))
        IN  IF ~IsNum(relative_delta) THEN Raise("TypeError")
            ELSE IF relative_delta.v < -150
            THEN \* `and` evaluates the impressions comparison
                 IF ~IsNum(impressions_change) THEN Raise("TypeError")
                 ELSE IF impressions_change.v > -50 THEN Ok(<<"creative_fatigue">>)
                 ELSE IF impressions_change.v < -100 THEN Ok(<<"audience_saturation">>)
                 ELSE Ok(<<"engagement_decline">>)
            ELSE Ok(<<"engagement_decline">>)
    ELSE Ok(<<"performance_variance">>)

\* the hypothesis text of an insight (an f-string, so always a str), as the
\* values it is formatted from
Hypothesis(kind, camp, baseline_value, current_value, diagnosis) ==
    Str([kind |-> kind, campaign |-> camp, baseline_value |-> baseline_value,
         current_value |-> current_value, diagnosis |-> diagnosis])

\* insight_agent.py:242-294 and 308-360: the body of the loop over one
\* family's drop records, for one record.  The result is "skip" (continue),
\* "raise" (an exception leaves the loop) or "emit" (a decision log entry
\* and an insight are appended).
ProcessItem(item, metric, threshold, outliers) ==
    IF "campaign" \notin DOMAIN item THEN [kind |-> "raise", msg |-> "KeyError"]
    ELSE
    LET camp     == item["campaign"]
        change   == Get(item, "relative_delta", Get(item, "change", None))
        baseline_value == Get(item, "baseline_value", Num(0))
        current_value  == Get(item, "current_value", Num(0))
    IN  \* `current_value - baseline_value` is evaluated as the default of .get
        IF ~IsNum(baseline_value) \/ ~IsNum(current_value)
        THEN [kind |-> "raise", msg |-> "TypeError"]
        ELSE
        LET absolute_delta == Get(item, "absolute_delta", Num(current_value.v - baseline_value.v))
        IN  IF change = None THEN [kind |-> "skip"]
            ELSE IF ~IsNum(change) THEN [kind |-> "raise", msg |-> "TypeError"]
            ELSE IF change.v >= -threshold THEN [kind |-> "skip"]
            ELSE
            LET \* the decision log entry and the insight appended
                Emit(diagnosis, confidence, imp) ==
                    \* the decision log of a click-through-rate record formats
                    \* item.get('impressions_change', 0) as a percentage
                    IF metric = "ctr" /\ ~IsNum(imp)
                    THEN [kind |-> "raise", msg |-> "TypeError"]
                    ELSE
                    [kind |-> "emit",
                     log  |-> [campaign |-> camp,
                               metric |-> IF metric = "roas" THEN "ROAS" ELSE "CTR",
                               trigger |-> <<change, threshold>>,
                               diagnosis |-> diagnosis,
                               baseline_value |-> baseline_value,
                               current_value |-> current_value],
                     insight |->
                       [hypothesis |-> Hypothesis(metric, camp, baseline_value,
                                                  current_value, diagnosis),
                        evidence |->
                          IF metric = "roas"
                          THEN [campaign |-> camp, baseline_value |-> baseline_value,
                                current_value |-> current_value,
                                absolute_delta |-> absolute_delta,
                                relative_delta |-> change,
                                diagnosis |-> [t |-> "str", v |-> diagnosis]]
                          ELSE [campaign |-> camp, baseline_value |-> baseline_value,
                                current_value |-> current_value,
                                absolute_delta |-> absolute_delta,
                                relative_delta |-> change,
                                diagnosis |-> [t |-> "str", v |-> diagnosis],
                                impressions_signal |-> imp],
                        expected_impact |-> IF metric = "roas" THEN "Moderate to High"
                                            ELSE "High on engagement",
                        confidence |-> Num(RoundDiv(confidence, 100 * threshold)),
                        confidence_level |-> confidence_level(confidence, threshold),
                        analysis_type |-> IF metric = "roas" THEN "roas_performance"
                                          ELSE "ctr_performance",
                        schema_version |-> "2.0"]]
                Diagnosed(d) ==
                    IF d.raised THEN [kind |-> "raise", msg |-> d.msg]
                    ELSE Emit(d.value,
                              calculate_confidence(change, threshold, outliers > 0, 1),
                              Get(item, "impressions_change", Num(0)))
            IN  Diagnosed(diagnose_root_cause(item, metric))

RECURSIVE ProcessDropsFrom(_, _, _, _, _)
\* the loop over one family's records from position i on: the insights and
\* decision logs appended until the loop ends or an exception leaves it
ProcessDropsFrom(items, i, metric, threshold, outliers) ==
    IF i > Len(items) THEN [insights |-> <<>>, logs |-> <<>>, raised |-> FALSE]
    ELSE LET Prepend(st, rest) ==
                 IF st.kind = "skip" THEN rest
                 ELSE [rest EXCEPT !.insights = <<st.insight>> \o @,
                                   !.logs = <<st.log>> \o @]
             Step(st) ==
                 IF st.kind = "raise"
                 THEN [insights |-> <<>>, logs |-> <<>>, raised |-> TRUE, msg |-> st.msg]
                 ELSE Prepend(st, ProcessDropsFrom(items, i + 1, metric, threshold,
                                                   outliers))
         IN  Step(ProcessItem(items[i], metric, threshold, outliers))

\* insight_agent.py:233, 299  the threshold sample of a family:
\* [item.get('relative_delta', item.get('change')) for item in drops
\*  if item.get('relative_delta') or item.get('change')]
Changes(drops) ==
    LET picked == SelectSeq(drops, LAMBDA item :
                     \/ Truthy(Get(item, "relative_delta", None))
                     \/ Truthy(Get(item, "change", None)))
    IN  [i \in 1..Len(picked) |->
            Get(picked[i], "relative_delta", Get(picked[i], "change", None))]

\* insight_agent.py:234-235, 300-301  the family's adaptive threshold
FamilyThreshold(drops) ==
    compute_adaptive_threshold(detect_outliers(Changes(drops)).filtered)

\* insight_agent.py:230-294, 296-360  one metric family
ProcessFamily(drops, metric) ==
    IF drops = <<>> THEN [insights |-> <<>>, logs |-> <<>>, raised |-> FALSE]
    ELSE LET Loop(found) ==
                 ProcessDropsFrom(drops, 1, metric,
                                  compute_adaptive_threshold(found.filtered),
                                  found.num_removed)
         IN  Loop(detect_outliers(Changes(drops)))

\* mutant of StableInsight: the tier derived with `>=` from confidence 0.5
StableInsight_Tiered(n_campaigns) ==
    [hypothesis |-> Hypothesis("stable", None, Num(0), Num(0), <<>>),
     evidence |-> [campaigns_analyzed |-> Num(n_campaigns),
                   baseline_value |-> Num(0), current_value |-> Num(0),
                   absolute_delta |-> Num(0), relative_delta |-> Num(0),
                   diagnosis |-> [t |-> "str", v |-> <<"stable_performance">>],
                   note |-> Str("Stable performance period")],
     expected_impact |-> "Uncertain",
     confidence |-> Num(50),
     confidence_level |-> "moderate",
     analysis_type |-> "baseline",
     schema_version |-> "2.0"]

\* insight_agent.py:364-384  the fallback insight
StableInsight(n_campaigns) ==
    [hypothesis |-> Hypothesis("stable", None, Num(0), Num(0), <<>>),
     evidence |-> [campaigns_analyzed |-> Num(n_campaigns),
                   baseline_value |-> Num(0), current_value |-> Num(0),
                   absolute_delta |-> Num(0), relative_delta |-> Num(0),
                   diagnosis |-> [t |-> "str", v |-> <<"stable_performance">>],
                   note |-> Str("Stable performance period")],
     expected_impact |-> "Uncertain",
     confidence |-> Num(50),
     confidence_level |-> "low",
     analysis_type |-> "baseline",
     schema_version |-> "2.0"]

\* mutant of ErrorInsight: the evidence holds the error message only
ErrorInsight_BareEvidence(msg) ==
    [hypothesis |-> Hypothesis("error", None, Num(0), Num(0), <<>>),
     evidence |-> [error |-> Str(msg)],
     expected_impact |-> "Unknown",
     confidence |-> Num(0),
     confidence_level |-> "low",
     analysis_type |-> "error",
     schema_version |-> "2.0"]

\* insight_agent.py:388-403  the error insight
ErrorInsight(msg) ==
    [hypothesis |-> Hypothesis("error", None, Num(0), Num(0), <<>>),
     evidence |-> [error |-> Str(msg),
                   baseline_value |-> Num(0), current_value |-> Num(0),
                   absolute_delta |-> Num(0), relative_delta |-> Num(0),
                   diagnosis |-> [t |-> "str", v |-> <<"error">>]],
     expected_impact |-> "Unknown",
     confidence |-> Num(0),
     confidence_level |-> "low",
     analysis_type |-> "error",
     schema_version |-> "2.0"]

\* mutant of OnGenerateError: the error insight replaces
\* what was collected
OnGenerateError_Reset(collected, msg) == <<ErrorInsight(msg)>>

\* insight_agent.py:386-403  the except clause appends the error insight
\* to the insights collected so far
OnGenerateError(collected, msg) == Append(collected, ErrorInsight(msg))

\* InsightAgent.generate (insight_agent.py:214-408): the returned object,
\* and the exception its except clause caught (None when the try block
\* completed)
GenerateRun(s) ==
    LET out(ins, logs) == [insights |-> ins, decision_logs |-> logs,
                           schema_version |-> "2.0"]
        ret(ins, logs)  == [result |-> out(ins, logs), error |-> None]
        exc(ins, logs, msg) ==
            [result |-> out(OnGenerateError(ins, msg), logs), error |-> Str(msg)]
        \* insight_agent.py:362-384  the end of the try block
        Close(ins, logs, campaigns) ==
            IF ins /= <<>> THEN ret(ins, logs)
            \* len(summary.get('campaigns', []))
            ELSE IF campaigns.t /= "list" THEN exc(ins, logs, "TypeError")
            ELSE ret(<<StableInsight(campaigns.v)>>, logs)
        \* insight_agent.py:296-360  after the click-through-rate family
        AfterCtr(roas, ctr) ==
            IF ctr.raised
            THEN exc(roas.insights \o ctr.insights, roas.logs \o ctr.logs, ctr.msg)
            ELSE Close(roas.insights \o ctr.insights, roas.logs \o ctr.logs,
                       Get(s, "campaigns", [t |-> "list", v |-> 0]))
        \* insight_agent.py:230-294  after the return-on-ad-spend family
        AfterRoas(drops, roas) ==
            IF roas.raised THEN exc(roas.insights, roas.logs, roas.msg)
            ELSE AfterCtr(roas, ProcessFamily(Get(drops, "ctr_drop_campaigns", <<>>),
                                              "ctr"))
        Families(drops) ==
            IF ~IsDict(drops) THEN exc(<<>>, <<>>, "AttributeError")
            ELSE AfterRoas(drops, ProcessFamily(Get(drops, "roas_drop_campaigns", <<>>),
                                                "roas"))
    IN
    \* summary.get on a non-mapping
    IF ~IsDict(s) THEN exc(<<>>, <<>>, "AttributeError")
    ELSE Families(Get(s, "top_drops", EmptyDict))

\* ==== EvaluatorAgent (agents/evaluator_agent.py) =======================
\* __init__ defaults: thresholds in hundredths, money in whole units
severe_threshold        == 250
moderate_threshold      == 150
high_spend_threshold    == 10000
critical_revenue_impact == 50000

required_fields ==
    <<"baseline_value", "current_value", "absolute_delta", "relative_delta", "diagnosis">>

\* mutant of calculate_severity: `>= 0.5` instead of `> 0.5`
calculate_severity_Inclusive(evidence) ==
    LET relative_delta == Get(evidence, "relative_delta", Num(0))
        absolute_delta == Get(evidence, "absolute_delta", Num(0))
        baseline_value == Get(evidence, "baseline_value", Num(0))
        spend          == Get(evidence, "spend", Num(0))
    IN
    \* abs() of a non-number raises
    IF ~IsNum(relative_delta) \/ ~IsNum(absolute_delta) THEN Raise("TypeError")
    \* revenue_impact = abs(absolute_delta * spend) if baseline_value != 0 else 0
    ELSE IF baseline_value /= Num(0) /\ ~IsNum(spend) THEN Raise("TypeError")
    ELSE
    LET rel == Abs(relative_delta.v)
        \* in hundredths of a money unit
        revenue_impact == IF baseline_value /= Num(0)
                          THEN Abs(Abs(absolute_delta.v) * spend.v) ELSE 0
    IN  IF revenue_impact > critical_revenue_impact * 100 \/ rel >= 500
        THEN Ok("critical")
        ELSE IF rel > severe_threshold THEN Ok("high")
        \* `or spend > self.high_spend_threshold` is evaluated now
        ELSE IF ~IsNum(spend) THEN Raise("TypeError")
        ELSE IF spend.v > high_spend_threshold THEN Ok("high")
        ELSE IF rel > moderate_threshold THEN Ok("medium")
        ELSE Ok("low")

\* EvaluatorAgent._calculate_severity (evaluator_agent.py:50-81)
calculate_severity(evidence) ==
    LET relative_delta == Get(evidence, "relative_delta", Num(0))
        absolute_delta == Get(evidence, "absolute_delta", Num(0))
        baseline_value == Get(evidence, "baseline_value", Num(0))
        spend          == Get(evidence, "spend", Num(0))
    IN
    \* abs() of a non-number raises
    IF ~IsNum(relative_delta) \/ ~IsNum(absolute_delta) THEN Raise("TypeError")
    \* revenue_impact = abs(absolute_delta * spend) if baseline_value != 0 else 0
    ELSE IF baseline_value /= Num(0) /\ ~IsNum(spend) THEN Raise("TypeError")
    ELSE
    LET rel == Abs(relative_delta.v)
        \* in hundredths of a money unit
        revenue_impact == IF baseline_value /= Num(0)
                          THEN Abs(Abs(absolute_delta.v) * spend.v) ELSE 0
    IN  IF revenue_impact > critical_revenue_impact * 100 \/ rel > 500
        THEN Ok("critical")
        ELSE IF rel > severe_threshold THEN Ok("high")
        \* `or spend > self.high_spend_threshold` is evaluated now
        ELSE IF ~IsNum(spend) THEN Raise("TypeError")
        ELSE IF spend.v > high_spend_threshold THEN Ok("high")
        ELSE IF rel > moderate_threshold THEN Ok("medium")
        ELSE Ok("low")

\* EvaluatorAgent._validate_statistical_significance (evaluator_agent.py:83-115)
validate_statistical_significance(evidence) ==
    LET relative_delta == Get(evidence, "relative_delta", Num(0))
        absolute_delta == Get(evidence, "absolute_delta", Num(0))
        baseline_value == Get(evidence, "baseline_value", Num(100))
    IN
    IF ~IsNum(relative_delta) \/ ~IsNum(absolute_delta) THEN Raise("TypeError")
    \* None != 0 is true, and absolute_delta / None raises
    ELSE IF ~IsNum(baseline_value) THEN Raise("TypeError")
    ELSE
    LET a == Abs(absolute_delta.v)
        b == Abs(baseline_value.v)
        r == Abs(relative_delta.v)
        \* normalized_change > c/1000
        exceeds(c) == IF b /= 0 THEN 1000 * a > c * b ELSE r > c
    IN  Ok([is_significant     |-> exceeds(moderate_threshold),
            significance_level |-> IF exceeds(severe_threshold) THEN "high"
                                   ELSE "moderate",
            \* round(normalized_change, 4), in ten-thousandths
            normalized_change  |-> IF b /= 0 THEN RoundDiv(a * 10000, b) ELSE r * 10,
            validation_method  |-> "percentile_threshold"])

\* mutant of normalize_confidence: the penalty is not floored at 0
normalize_confidence_NoFloor(insight_confidence, validation_result) ==
    IF ~IsNum(insight_confidence) THEN Raise("TypeError")
    ELSE
    LET c0 == insight_confidence.v
        c1 == IF validation_result.significance_level = "high"
              THEN Min(100, c0 + 10) ELSE c0
        c2 == IF ~validation_result.is_significant THEN c1 - 20 ELSE c1
    IN  Ok(Num(c2))

\* EvaluatorAgent._normalize_confidence (evaluator_agent.py:117-139),
\* confidence in hundredths
normalize_confidence(insight_confidence, validation_result) ==
    IF ~IsNum(insight_confidence) THEN Raise("TypeError")
    ELSE
    LET c0 == insight_confidence.v
        c1 == IF validation_result.significance_level = "high"
              THEN Min(100, c0 + 10) ELSE c0
        c2 == IF ~validation_result.is_significant THEN Max(0, c1 - 20) ELSE c1
    IN  Ok(Num(c2))

\* mutant of FillMissing: 0 for every missing field, the diagnosis too
FillMissing_AllZero(evidence) ==
    [k \in DOMAIN evidence \cup {"baseline_value", "current_value", "absolute_delta",
                                 "relative_delta", "diagnosis"} |->
        IF k \in DOMAIN evidence THEN evidence[k] ELSE Num(0)]

\* evaluator_agent.py:161-171  the evidence with defaults for the missing
\* required fields (the code assigns them into the insight's own evidence)
FillMissing(evidence) ==
    [k \in DOMAIN evidence \cup {required_fields[i] : i \in 1..Len(required_fields)} |->
        IF k \in DOMAIN evidence THEN evidence[k]
        ELSE IF k = "diagnosis" THEN [t |-> "str", v |-> <<"unknown">>]
        ELSE Num(0)]

\* evaluator_agent.py:204-211  the except clause's ValidatedInsight
FailedInsight(ins, msg) ==
    [hypothesis |-> Get(ins, "hypothesis", Str("Unknown")),
     evidence |-> Get(ins, "evidence", EmptyDict),
     confidence |-> Num(0),
     severity |-> "low",
     validation_notes |-> <<"Validation failed", msg>>,
     schema_version |-> "2.0"]

\* evaluator_agent.py:155-211  one iteration of validate's loop: "ok" (the
\* try block appended), "failed" (the except clause appended) or "raise"
\* (the except clause itself raised).  ins is the element as the iteration
\* leaves it.
ValidateOne(ins) ==
    \* ins.get on a non-mapping raises AttributeError, in the try block and
    \* again in the except clause
    IF ~IsDict(ins) THEN [kind |-> "raise", msg |-> "AttributeError", ins |-> ins]
    ELSE
    LET evidence0           == Get(ins, "evidence", EmptyDict)
        hypothesis          == Get(ins, "hypothesis", Str(""))
        original_confidence == Get(ins, "confidence", Num(50))
    IN
    \* `f not in evidence` / `evidence[field] = 0` on a non-mapping
    IF ~IsDict(evidence0)
    THEN [kind |-> "failed", out |-> FailedInsight(ins, "TypeError"), ins |-> ins]
    ELSE
    LET evidence == FillMissing(evidence0)
        ins1     == IF "evidence" \in DOMAIN ins
                    THEN [ins EXCEPT !["evidence"] = evidence] ELSE ins
        fail(msg) == [kind |-> "failed", out |-> FailedInsight(ins1, msg), ins |-> ins1]
        vr  == validate_statistical_significance(evidence)
    IN  IF vr.raised THEN fail(vr.msg)
        ELSE LET sev == calculate_severity(evidence) IN
        IF sev.raised THEN fail(sev.msg)
        ELSE LET nc == normalize_confidence(original_confidence, vr.value) IN
        IF nc.raised THEN fail(nc.msg)
        ELSE [kind |-> "ok",
              out  |-> [hypothesis |-> hypothesis,
                        evidence |-> evidence,
                        confidence |-> nc.value,
                        severity |-> sev.value,
                        validation_notes |->
                            <<vr.value.is_significant, vr.value.significance_level,
                              vr.value.normalized_change, sev.value>>,
                        statistical_validation |-> vr.value,
                        schema_version |-> "2.0"],
              ins  |-> ins1]

RECURSIVE ValidateFrom(_, _)
\* EvaluatorAgent.validate's loop from position i on: the ValidatedInsights
\* appended, the elements as the loop leaves them, and whether it raised
ValidateFrom(list, i) ==
    IF i > Len(list) THEN [validated |-> <<>>, list |-> <<>>, raised |-> FALSE]
    ELSE LET one == ValidateOne(list[i]) IN
         IF one.kind = "raise"
         THEN [validated |-> <<>>,
               list |-> [k \in 1..(Len(list) - i + 1) |-> list[i + k - 1]],
               raised |-> TRUE]
         ELSE LET rest == ValidateFrom(list, i + 1) IN
              [rest EXCEPT !.validated = <<one.out>> \o @,
                           !.list = <<one.ins>> \o @]

\* ==== the inputs of generate ===========================================
MaxRoasDrops == 3
MaxCtrDrops  == 1

\* a DropRecord as DataAgent.summarize builds it (data_agent.py:113-121):
\* baseline 10.00, the current value and the deltas following from rel
RoasRecord(camp, rel, spend) ==
    [campaign |-> Str(camp), baseline_value |-> Num(1000),
     current_value |-> Num(1000 + rel), absolute_delta |-> Num(rel),
     relative_delta |-> Num(rel), spend |-> Num(spend)]

\* data_agent.py:125-134, baseline 2.00
CtrRecord(camp, rel, imp) ==
    [campaign |-> Str(camp), baseline_value |-> Num(200),
     current_value |-> Num(200 + rel \div 5), absolute_delta |-> Num(rel \div 5),
     relative_delta |-> Num(rel), impressions_change |-> imp]

\* scenario A's record: baseline 10.0, current 6.0, spend 12000
ScenarioARecord == RoasRecord("A", -400, 12000)

RoasItems ==
    { ScenarioARecord,
      RoasRecord("B", -500, 3000),
      RoasRecord("C", -100, 3000),
      \* a small drop of a campaign with a spend above 10,000
      RoasRecord("D", -120, 12000),
      \* -0.168 against the default threshold 0.10: confidence 0.702
      RoasRecord("K", -168, 3000),
      \* a record without a campaign id
      [baseline_value |-> Num(1000), current_value |-> Num(700),
       absolute_delta |-> Num(-300), relative_delta |-> Num(-300),
       spend |-> Num(3000)],
      \* a record whose relative delta is undefined (baseline 0)
      [campaign |-> Str("F"), baseline_value |-> Num(0), current_value |-> Num(50),
       absolute_delta |-> Num(50), relative_delta |-> None, spend |-> Num(3000)] }

CtrItems ==
    { CtrRecord("G", -250, Num(20)),
      \* impressions_change is None when the baseline impressions are 0
      \* (data_agent.py:109)
      CtrRecord("H", -250, None),
      CtrRecord("I", -120, Num(-200)) }

SeqsUpTo(S, n) == UNION {[1..k -> S] : k \in 0..n}

Campaigns == [t |-> "list", v |-> 3]

Summaries ==
    { [campaigns |-> Campaigns,
       top_drops |-> [roas_drop_campaigns |-> r, ctr_drop_campaigns |-> c]] :
         r \in SeqsUpTo(RoasItems, MaxRoasDrops), c \in SeqsUpTo(CtrItems, MaxCtrDrops) }
    \cup
    { None,                                             \* not a mapping
      [campaigns |-> Campaigns],                        \* no top_drops
      [campaigns |-> Campaigns, top_drops |-> EmptyDict],  \* no drop lists
      [campaigns |-> None, top_drops |-> EmptyDict],    \* campaigns: null
      [top_drops |-> None] }                            \* top_drops: null

\* the summary of end-to-end scenario A
ScenarioA ==
    [campaigns |-> Campaigns,
     top_drops |-> [roas_drop_campaigns |-> <<ScenarioARecord>>,
                    ctr_drop_campaigns |-> <<>>]]

InsightInit ==
    /\ ScIdle /\ DdIdle /\ SvIdle /\ CsIdle /\ PlIdle /\ FnIdle
    /\ summary \in Summaries
    /\ insights = None
    /\ decision_logs = <<>>
    /\ validated = None
    /\ gen_error = None
    /\ ia_pc = "ready"

\* InsightAgent.generate(summary)
Generate ==
    /\ ia_pc = "ready"
    /\ LET Returned(run) ==
               /\ insights' = run.result
               /\ decision_logs' = run.result.decision_logs
               /\ gen_error' = run.error
       IN  Returned(GenerateRun(summary))
    /\ ia_pc' = "generated"
    /\ UNCHANGED <<summary, validated, scVars, ddVars, svVars, csVars, plVars, fnVars>>

\* EvaluatorAgent.validate(insights, summary): the loop assigns defaults
\* into the evidence of the insights it was given
Validate ==
    /\ ia_pc = "generated"
    /\ LET r == ValidateFrom(Get(insights, "insights", <<>>), 1) IN
       /\ validated' = IF r.raised THEN [raised |-> TRUE]
                       ELSE [raised |-> FALSE, validated |-> r.validated,
                             schema_version |-> "2.0"]
       /\ insights' = IF "insights" \in DOMAIN insights
                      THEN [insights EXCEPT !["insights"] = r.list]
                      ELSE insights
    /\ ia_pc' = "validated"
    /\ UNCHANGED <<summary, decision_logs, gen_error, scVars, ddVars, svVars, csVars, plVars, fnVars>>

InsightNext == Generate \/ Validate

SpecInsight == InsightInit /\ [][InsightNext]_vars

\* ---- claims about InsightAgent.generate --------------------------------
Generated == ia_pc \in {"generated", "validated"}

\* the drop list of a family in the summary ([] when absent)
DropsOf(key) ==
    IF IsDict(summary) /\ IsDict(Get(summary, "top_drops", EmptyDict))
    THEN Get(Get(summary, "top_drops", EmptyDict), key, <<>>)
    ELSE <<>>

\* a record whose relative delta is defined and strictly below -T
Qualifies(item, T) ==
    LET rel == Get(item, "relative_delta", None) IN IsNum(rel) /\ rel.v < -T

QualifyingOf(key) ==
    LET drops == DropsOf(key) IN
    IF drops = <<>> THEN <<>>
    ELSE SelectSeq(drops, LAMBDA item : Qualifies(item, FamilyThreshold(drops)))

\* the insight carries the record's campaign, baseline, current, absolute
\* delta and relative delta unchanged
InsightOf(ins, item, analysis) ==
    /\ ins.analysis_type = analysis
    /\ \A k \in {"campaign", "baseline_value", "current_value",
                 "absolute_delta", "relative_delta"} :
          Get(ins.evidence, k, None) = Get(item, k, None)

IsErrorInsight(ins) ==
    /\ ins.analysis_type = "error"
    /\ ins.confidence = Num(0)
    /\ ins.confidence_level = "low"
    /\ ins.evidence["diagnosis"].v = <<"error">>
    /\ Get(ins.evidence, "error", None) = gen_error

IsStableInsight(ins) ==
    ins.evidence["diagnosis"].v = <<"stable_performance">>

IsDropInsight(ins) ==
    ins.analysis_type \in {"roas_performance", "ctr_performance"}

C5_PerItemIsolation ==
    Generated =>
        \A fam \in {<<"roas_drop_campaigns", "roas", "roas_performance">>,
                    <<"ctr_drop_campaigns", "ctr", "ctr_performance">>} :
            LET drops == DropsOf(fam[1]) IN
            \A i \in 1..Len(drops) :
                (/\ Qualifies(drops[i], FamilyThreshold(drops))
                 /\ ProcessItem(drops[i], fam[2], FamilyThreshold(drops), 0).kind = "emit")
                => \E j \in 1..Len(insights.insights) :
                       InsightOf(insights.insights[j], drops[i], fam[3])

\* C6: generate emits exactly one Insight for every drop record whose
\* relative delta is strictly below -T of its family and none for any other
\* record; return-on-ad-spend insights first, click-through-rate insights
\* after, each family in input order, the evidence carrying the record's
\* campaign, baseline, current, absolute delta and relative delta unchanged.
C6_EmissionRule ==
    Generated =>
        LET qr   == QualifyingOf("roas_drop_campaigns")
            qc   == QualifyingOf("ctr_drop_campaigns")
            L    == SelectSeq(insights.insights, IsDropInsight)
        IN  /\ Len(L) = Len(qr) + Len(qc)
            /\ \A i \in 1..Len(L) :
                  IF i <= Len(qr) THEN InsightOf(L[i], qr[i], "roas_performance")
                  ELSE InsightOf(L[i], qc[i - Len(qr)], "ctr_performance")

\* C6 restricted to the runs in which no exception was raised (not the
\* claim: it shows what the failure path takes away)
EmissionRuleWithoutFailure == gen_error = None => C6_EmissionRule

\* C7: when generation completes without failure and no record of either
\* family qualifies, exactly one Insight is returned: 'stable_performance',
\* confidence 0.5, tier 'low', with an empty decision log; when at least
\* one record qualifies, no 'stable_performance' insight is returned.
C7_StableFallback ==
    Generated =>
        LET none == /\ QualifyingOf("roas_drop_campaigns") = <<>>
                    /\ QualifyingOf("ctr_drop_campaigns") = <<>>
            L    == insights.insights
        IN  /\ (gen_error = None /\ none) =>
                  /\ Len(L) = 1
                  /\ IsStableInsight(L[1])
                  /\ L[1].confidence = Num(50)
                  /\ L[1].confidence_level = "low"
                  /\ insights.decision_logs = <<>>
                  /\ decision_logs = <<>>
            /\ ~none => \A i \in 1..Len(L) : ~IsStableInsight(L[i])

\* C7 witness: a non-empty drop list none of whose records qualifies
\* (-0.10 against the default threshold 0.10) gives the fallback insight.
C7_Witness ==
    /\ Generated
    /\ gen_error = None
    /\ DropsOf("roas_drop_campaigns") = <<RoasRecord("C", -100, 3000)>>
    /\ Len(insights.insights) = 1
    /\ IsStableInsight(insights.insights[1])

ScenarioADiagnosis == insights.insights[1].evidence["diagnosis"].v

\* C8 (as stated): in scenario A generate emits exactly one insight whose
\* diagnosis contains 'severe_performance_degradation' and
\* 'high_spend_inefficiency', and validate assigns severity 'high'.
C8_ScenarioASevere ==
    (summary = ScenarioA /\ Generated) =>
        /\ Len(insights.insights) = 1
        /\ \E i \in 1..Len(ScenarioADiagnosis) :
              ScenarioADiagnosis[i] = "severe_performance_degradation"
        /\ \E i \in 1..Len(ScenarioADiagnosis) :
              ScenarioADiagnosis[i] = "high_spend_inefficiency"
        /\ ia_pc = "validated" =>
              /\ ~validated.raised
              /\ Len(validated.validated) = 1
              /\ validated.validated[1].severity = "high"

\* C8 (amended): in scenario A generate emits exactly one insight whose
\* diagnosis is 'moderate_performance_decline | high_spend_inefficiency'
\* (a relative delta of exactly -0.4 is not < -0.4), and validate assigns
\* that insight severity 'high'.
C8_ScenarioA ==
    (summary = ScenarioA /\ Generated) =>
        /\ Len(insights.insights) = 1
        /\ ScenarioADiagnosis =
              <<"moderate_performance_decline", "high_spend_inefficiency">>
        /\ ia_pc = "validated" =>
              /\ ~validated.raised
              /\ Len(validated.validated) = 1
              /\ validated.validated[1].severity = "high"

\* C8 witness: scenario A, generated and validated with severity 'high'.
C8_Witness ==
    /\ summary = ScenarioA
    /\ ia_pc = "validated"
    /\ validated.validated[1].severity = "high"

\* ==== EvaluatorAgent.validate on arbitrary insights ====================
MaxInsights == 2

\* the evidence of test_validate_full_insight
\* (tests/test_evaluator_statistical.py)
FullEvidence ==
    [baseline_value |-> Num(1250), current_value |-> Num(620),
     absolute_delta |-> Num(-630), relative_delta |-> Num(-504),
     diagnosis |-> [t |-> "str", v |-> <<"creative_fatigue">>],
     spend |-> Num(25000)]

\* the elements an insights list handed to validate may hold
InsightElements ==
    { [hypothesis |-> Str("h"), evidence |-> FullEvidence, confidence |-> Num(80)],
      \* evidence with every required field missing
      [hypothesis |-> Str("h"), evidence |-> EmptyDict, confidence |-> Num(50)],
      \* a null where a number is expected
      [hypothesis |-> Str("h"), confidence |-> Num(80),
       evidence |-> [FullEvidence EXCEPT !["relative_delta"] = None]],
      \* a string where a number is expected
      [hypothesis |-> Str("h"), confidence |-> Num(80),
       evidence |-> [FullEvidence EXCEPT !["spend"] = Str("x")]],
      \* evidence that is not a mapping
      [hypothesis |-> Str("h"), evidence |-> None, confidence |-> Num(80)],
      [hypothesis |-> Str("h"), evidence |-> [t |-> "list", v |-> 0],
       confidence |-> Num(80)],
      \* confidence: null
      [hypothesis |-> Str("h"), evidence |-> FullEvidence, confidence |-> None],
      \* an insight with no field at all
      EmptyDict,
      \* elements that are not mappings
      None,
      Str("x") }
    \cup
    \* evidence lacking a subset of the required fields
    { [hypothesis |-> Str("h"), confidence |-> Num(80),
       evidence |-> [k \in (DOMAIN FullEvidence \ missing) |-> FullEvidence[k]]] :
         missing \in SUBSET {required_fields[i] : i \in 1..Len(required_fields)} }
    \cup
    \* empty evidence, with a confidence below 0.2 and with none
    { [hypothesis |-> Str("h"), evidence |-> EmptyDict, confidence |-> Num(10)],
      [hypothesis |-> Str("h"), evidence |-> EmptyDict] }

EvaluatorInit ==
    /\ ScIdle /\ DdIdle /\ SvIdle /\ CsIdle /\ PlIdle /\ FnIdle
    /\ summary = None
    /\ insights \in {[insights |-> l, schema_version |-> "2.0"] :
                        l \in SeqsUpTo(InsightElements, MaxInsights)}
    /\ decision_logs = <<>>
    /\ validated = None
    /\ gen_error = None
    /\ ia_pc = "generated"

EvaluatorNext == Validate

SpecEvaluator == EvaluatorInit /\ [][EvaluatorNext]_vars

\* the element makes an evidence check or a computation of validate fail
FailsValidation(ins) == ValidateOne(ins).kind /= "ok"

IsFailedInsight(v) ==
    /\ "statistical_validation" \notin DOMAIN v
    /\ v.confidence = Num(0)
    /\ v.severity = "low"
    /\ v.validation_notes[1] = "Validation failed"

\* C3: validate never raises; it returns exactly one ValidatedInsight per
\* input insight, in input order; an insight whose evidence is missing, not
\* a mapping or ill-typed, or which is itself not a mapping, gets a
\* ValidatedInsight with confidence 0.0, severity 'low' and a
\* 'Validation failed' note, and the other insights are still validated.
C3_OnePerInsightNeverRaises ==
    ia_pc = "validated" =>
        /\ ~validated.raised
        /\ Len(validated.validated) = Len(insights.insights)
        /\ \A i \in 1..Len(insights.insights) :
              LET one == ValidateOne(insights.insights[i]) IN
              IF one.kind = "ok"
              THEN validated.validated[i] = one.out
              ELSE IsFailedInsight(validated.validated[i])

\* the same for lists whose elements are all mappings
ValidateIsolatesMappings ==
    (ia_pc = "validated" /\ \A i \in 1..Len(insights.insights) :
                               IsDict(insights.insights[i])) =>
        /\ ~validated.raised
        /\ Len(validated.validated) = Len(insights.insights)
        /\ \A i \in 1..Len(insights.insights) :
              LET one == ValidateOne(insights.insights[i]) IN
              IF one.kind = "ok"
              THEN validated.validated[i] = one.out
              ELSE IsFailedInsight(validated.validated[i])

\* ==== DriftDetector ====================================================
MaxSaves == 1

\* drift_detector.py:27  drift_threshold, in hundredths
drift_threshold == 15
\* drift_detector.py:167  the drift above which a detection is 'high'
high_drift == 50

IsNumber(x) == ~IsDict(x) /\ x.t = "num"

\* ---- the persisted baseline file ----
AbsentFile    == [state |-> "absent"]
\* a file that json.load rejects (also what an interrupted write leaves)
CorruptFile   == [state |-> "corrupt"]
JsonFile(doc) == [state |-> "json", doc |-> doc]

\* mutant of LoadBaseline: an unparsable file read as an empty document
LoadBaseline_EmptyOnError(file) ==
    IF file.state = "absent" THEN None
    ELSE IF file.state = "corrupt" THEN EmptyDict
    ELSE file.doc

\* DriftDetector._load_baseline (drift_detector.py:39-52)
LoadBaseline(file) ==
    IF file.state = "absent" THEN None
    ELSE IF file.state = "corrupt" THEN None
    ELSE file.doc

\* the report detect_drift starts from (drift_detector.py:144-148)
CleanReport == [has_drift |-> FALSE, severity |-> "none", detections |-> <<>>]

Detection(type, b, c, num, den) ==
    [type |-> type, baseline |-> b, current |-> c,
     \* round(drift * 100, 1), in tenths of a percent
     drift_pct |-> RoundDiv(num * 1000, den),
     severity |-> IF 100 * num > high_drift * den THEN "high" ELSE "medium"]

StepOk(dets) == [raised |-> FALSE, dets |-> dets]
StepRaised   == [raised |-> TRUE, dets |-> <<>>]

\* drift_detector.py:156-168 and 171-183  one count signal; b and c are the
\* documents (mappings)
CountCheck(b, c, section, field, type) ==
    LET bs == Get(b, section, EmptyDict)
        cs == Get(c, section, EmptyDict)
    IN
    \* .get on a section that is not a mapping: AttributeError
    IF ~IsDict(bs) \/ ~IsDict(cs) THEN StepRaised
    ELSE
    LET bv == Get(bs, field, Num(0))
        cv == Get(cs, field, Num(0))
    IN
    \* `baseline > 0` on a value that is not a number: TypeError
    IF ~IsNumber(bv) THEN StepRaised
    ELSE IF bv.v <= 0 THEN StepOk(<<>>)
    ELSE IF ~IsNumber(cv) THEN StepRaised
    ELSE IF 100 * Abs(cv.v - bv.v) > drift_threshold * bv.v
         THEN StepOk(<<Detection(type, bv, cv, Abs(cv.v - bv.v), bv.v)>>)
         ELSE StepOk(<<>>)

\* `name in metrics`: "yes", "no" or "raise" (None and numbers are not
\* containers)
HasMetric(metrics, name) ==
    IF IsDict(metrics) THEN (IF name \in DOMAIN metrics THEN "yes" ELSE "no")
    ELSE IF metrics.t \in {"list", "str"} THEN "no"
    ELSE "raise"

\* drift_detector.py:190-203  one mean signal; bm and cm are the values
\* under 'metrics'
MeanCheck(bm, cm, name, type) ==
    LET hb == HasMetric(bm, name) IN
    IF hb = "raise" THEN StepRaised
    ELSE IF hb = "no" THEN StepOk(<<>>)
    ELSE
    LET hc == HasMetric(cm, name) IN
    IF hc = "raise" THEN StepRaised
    ELSE IF hc = "no" THEN StepOk(<<>>)
    ELSE IF ~IsDict(bm[name]) \/ ~IsDict(cm[name]) THEN StepRaised
    ELSE
    LET baseline_mean == Get(bm[name], "mean", None)
        current_mean  == Get(cm[name], "mean", None)
    IN
    IF baseline_mean = None \/ current_mean = None \/ baseline_mean = Num(0)
    THEN StepOk(<<>>)
    \* arithmetic on a value that is not a number: TypeError
    ELSE IF ~IsNumber(baseline_mean) \/ ~IsNumber(current_mean) THEN StepRaised
    ELSE LET num == Abs(current_mean.v - baseline_mean.v)
             den == Abs(baseline_mean.v)
         IN  IF 100 * num > drift_threshold * den
             THEN StepOk(<<Detection(type, baseline_mean, current_mean, num, den)>>)
             ELSE StepOk(<<>>)

\* drift_detector.py:206-212  the overall flag and severity
Finish(dets) ==
    IF dets = <<>> THEN CleanReport
    ELSE [has_drift |-> TRUE,
          severity |-> IF \E i \in 1..Len(dets) : dets[i].severity = "high"
                       THEN "high" ELSE "medium",
          detections |-> dets]

\* drift_detector.py:214-217  the except clause: the report as the failing
\* statement left it
Interrupted(dets) == [CleanReport EXCEPT !.detections = dets]

\* DriftDetector.detect_drift (drift_detector.py:134-217)
detect_drift(b, current_stats) ==
    IF b = None THEN CleanReport
    ELSE IF ~IsDict(b) \/ ~IsDict(current_stats) THEN Interrupted(<<>>)
    ELSE
    LET s1 == CountCheck(b, current_stats, "campaigns", "count", "campaign_count") IN
    IF s1.raised THEN Interrupted(<<>>)
    ELSE
    LET s2 == CountCheck(b, current_stats, "performance_drops", "roas_count",
                         "roas_drop_count") IN
    IF s2.raised THEN Interrupted(s1.dets)
    ELSE
    LET bm == Get(b, "metrics", EmptyDict)
        cm == Get(current_stats, "metrics", EmptyDict)
        s3 == MeanCheck(bm, cm, "roas_changes", "roas_changes_mean")
    IN
    IF s3.raised THEN Interrupted(s1.dets \o s2.dets)
    ELSE
    LET s4 == MeanCheck(bm, cm, "ctr_changes", "ctr_changes_mean") IN
    IF s4.raised THEN Interrupted(s1.dets \o s2.dets \o s3.dets)
    ELSE Finish(s1.dets \o s2.dets \o s3.dets \o s4.dets)

\* ---- snapshots and baseline documents ----
\* a snapshot as compute_stats builds it (drift_detector.py:69-132);
\* metrics maps 'roas_changes' / 'ctr_changes' to their statistics
Stats(n_campaigns, roas_count, ctr_count, metrics) ==
    [campaigns |-> [count |-> Num(n_campaigns)],
     performance_drops |-> [roas_count |-> Num(roas_count),
                            ctr_count |-> Num(ctr_count)],
     metrics |-> metrics]

MeanOf(m) == [mean |-> Num(m)]

CurrentSnapshots ==
    { Stats(3, 1, 0, EmptyDict),
      Stats(3, 1, 0, [roas_changes |-> MeanOf(-20)]),
      Stats(4, 1, 3, [roas_changes |-> MeanOf(-22), ctr_changes |-> MeanOf(-25)]),
      Stats(10, 4, 1, [roas_changes |-> MeanOf(-50), ctr_changes |-> MeanOf(-25)]),
      Stats(0, 0, 0, EmptyDict) }

\* documents json.load may return that compute_stats did not write
ForeignDocs ==
    { None,                                   \* null
      [t |-> "list", v |-> 0],                \* an array
      EmptyDict,                              \* {}
      [campaigns |-> [count |-> Num(10)], performance_drops |-> None],
      [campaigns |-> [count |-> Num(10)],
       performance_drops |-> [roas_count |-> Str("4")]],
      [campaigns |-> [count |-> Num(3)],
       performance_drops |-> [roas_count |-> Num(4)],
       metrics |-> [roas_changes |-> Num(-20)]],
      [campaigns |-> [count |-> Num(4)], metrics |-> None],
      [campaigns |-> None],
      [campaigns |-> [count |-> Str("3")]],
      [metrics |-> [roas_changes |-> [mean |-> None]]] }

BaselineFiles ==
    {AbsentFile, CorruptFile} \cup
    {JsonFile(d) : d \in CurrentSnapshots \cup ForeignDocs}

DriftInit ==
    /\ ScIdle /\ IaIdle /\ SvIdle /\ CsIdle /\ PlIdle /\ FnIdle
    /\ baseline_file \in BaselineFiles
    /\ baseline = None
    /\ drift = None
    /\ detect_baseline = None
    /\ detect_current = None
    /\ save_call = None
    /\ saves = 0
    /\ save_result = None
    /\ dd_pc = "new"

\* DriftDetector.__init__ (drift_detector.py:27-37)
Construct ==
    /\ dd_pc = "new"
    /\ baseline' = LoadBaseline(baseline_file)
    /\ dd_pc' = "ready"
    /\ UNCHANGED <<baseline_file, drift, detect_baseline, detect_current, save_call,
                   saves, save_result,
                   scVars, iaVars, svVars, csVars, plVars, fnVars>>

\* DriftDetector.detect_drift(current_stats)
DetectDrift(current_stats) ==
    /\ dd_pc = "ready"
    /\ drift' = detect_drift(baseline, current_stats)
    /\ detect_baseline' = baseline
    /\ detect_current' = current_stats
    /\ UNCHANGED <<baseline_file, baseline, save_call, saves, save_result, dd_pc,
                   scVars, iaVars, svVars, csVars, plVars, fnVars>>

\* DriftDetector.save_baseline(stats), the write succeeding
\* (drift_detector.py:229-235)
SaveBaseline(stats) ==
    /\ dd_pc = "ready"
    /\ saves < MaxSaves
    /\ baseline_file' = JsonFile(stats)
    /\ baseline' = stats
    /\ save_result' = TRUE
    /\ saves' = saves + 1
    /\ save_call' = [stats |-> stats, file |-> baseline_file, baseline |-> baseline]
    /\ UNCHANGED <<drift, detect_baseline, detect_current, dd_pc, scVars, iaVars, svVars, csVars, plVars, fnVars>>

\* save_baseline, os.makedirs or open raising (drift_detector.py:230-231,
\* 236-238): nothing was written
SaveBaselineRefused(stats) ==
    /\ dd_pc = "ready"
    /\ saves < MaxSaves
    /\ save_result' = FALSE
    /\ saves' = saves + 1
    /\ save_call' = [stats |-> stats, file |-> baseline_file, baseline |-> baseline]
    /\ UNCHANGED <<baseline_file, baseline, drift, detect_baseline, detect_current, dd_pc,
                   scVars, iaVars, svVars, csVars, plVars, fnVars>>

\* save_baseline, json.dump raising after open(path, 'w') truncated the
\* file (drift_detector.py:231-232, 236-238)
SaveBaselineInterrupted(stats) ==
    /\ dd_pc = "ready"
    /\ saves < MaxSaves
    /\ baseline_file' = CorruptFile
    /\ save_result' = FALSE
    /\ saves' = saves + 1
    /\ save_call' = [stats |-> stats, file |-> baseline_file, baseline |-> baseline]
    /\ UNCHANGED <<baseline, drift, detect_baseline, detect_current, dd_pc, scVars, iaVars, svVars, csVars, plVars, fnVars>>

DriftNext ==
    \/ Construct
    \/ \E current_stats \in CurrentSnapshots : DetectDrift(current_stats)
    \/ \E stats \in CurrentSnapshots : SaveBaseline(stats)
    \/ \E stats \in CurrentSnapshots : SaveBaselineRefused(stats)
    \/ \E stats \in CurrentSnapshots : SaveBaselineInterrupted(stats)

SpecDrift == DriftInit /\ [][DriftNext]_vars

\* ---- claims about the DriftDetector -----------------------------------
Detected == dd_pc = "ready" /\ drift /= None

\* C9: with no baseline available (the file absent, or unparsable at
\* construction) the detector holds no baseline, and detect_drift then
\* returns has_drift = false, severity 'none' and no detections for every
\* current snapshot.
C9_NoBaselineNoDrift ==
    /\ (dd_pc = "ready" /\ saves = 0
          /\ baseline_file.state \in {"absent", "corrupt"}) => baseline = None
    /\ (Detected /\ detect_baseline = None) => drift = CleanReport

C9_Witness ==
    /\ Detected
    /\ saves = 0
    /\ baseline_file = CorruptFile
    /\ detect_baseline = None
    /\ drift = CleanReport

\* C10: for every loaded baseline document and every current snapshot the
\* report of detect_drift has has_drift true iff detections is non-empty,
\* severity 'none' iff detections is empty, 'high' iff some detection is
\* 'high', and 'medium' otherwise.
C10_ReportConsistent ==
    Detected =>
        LET d == drift.detections IN
        /\ drift.has_drift <=> d /= <<>>
        /\ drift.severity =
              IF d = <<>> THEN "none"
              ELSE IF \E i \in 1..Len(d) : d[i].severity = "high" THEN "high"
              ELSE "medium"

\* the same for the baselines save_baseline wrote from a snapshot
ReportConsistentForSnapshots ==
    (Detected /\ detect_baseline \in CurrentSnapshots) =>
        LET d == drift.detections IN
        /\ drift.has_drift <=> d /= <<>>
        /\ drift.severity =
              IF d = <<>> THEN "none"
              ELSE IF \E i \in 1..Len(d) : d[i].severity = "high" THEN "high"
              ELSE "medium"

\* ---- drift signals ----------------------------------------------------
\* the five signals a snapshot carries: the detection type, and where the
\* value is in the document
Signals ==
    { [type |-> "campaign_count",   path |-> <<"campaigns", "count">>],
      [type |-> "roas_drop_count",  path |-> <<"performance_drops", "roas_count">>],
      [type |-> "ctr_drop_count",   path |-> <<"performance_drops", "ctr_count">>],
      [type |-> "roas_changes_mean", path |-> <<"metrics", "roas_changes", "mean">>],
      [type |-> "ctr_changes_mean",  path |-> <<"metrics", "ctr_changes", "mean">>] }

RECURSIVE ValueAt(_, _)
\* the value at a path of a document, None where the path is absent
ValueAt(doc, path) ==
    IF path = <<>> THEN doc
    ELSE IF ~IsDict(doc) THEN None
    ELSE IF path[1] \notin DOMAIN doc THEN None
    ELSE ValueAt(doc[path[1]], Tail(path))

DetectionsOf(type) ==
    SelectSeq(drift.detections, LAMBDA d : d.type = type)

\* C11: detect_drift evaluates campaign count, both families' drop counts
\* and both families' mean relative delta; for each signal whose baseline
\* value is non-zero a detection is recorded iff
\* |current - baseline| / |baseline| > drift_threshold, 'high' iff the drift
\* is > 0.5 and 'medium' otherwise; a signal whose baseline is 0 is skipped.
C11_SignalCoverage ==
    (Detected /\ detect_baseline \in CurrentSnapshots) =>
        \A sig \in Signals :
            LET b    == ValueAt(detect_baseline, sig.path)
                c    == ValueAt(detect_current, sig.path)
                dets == DetectionsOf(sig.type)
            IN  IF b = None \/ c = None \/ b = Num(0) THEN dets = <<>>
                ELSE LET num == Abs(c.v - b.v)
                         den == Abs(b.v)
                     IN  IF 100 * num > drift_threshold * den
                         THEN /\ Len(dets) = 1
                              /\ dets[1].severity =
                                    IF 100 * num > high_drift * den
                                    THEN "high" ELSE "medium"
                         ELSE dets = <<>>

\* the same without the click-through-rate drop count
SignalCoverageExceptCtrCount ==
    (Detected /\ detect_baseline \in CurrentSnapshots) =>
        \A sig \in {x \in Signals : x.type /= "ctr_drop_count"} :
            LET b    == ValueAt(detect_baseline, sig.path)
                c    == ValueAt(detect_current, sig.path)
                dets == DetectionsOf(sig.type)
            IN  IF b = None \/ c = None \/ b = Num(0) THEN dets = <<>>
                ELSE LET num == Abs(c.v - b.v)
                         den == Abs(b.v)
                     IN  IF 100 * num > drift_threshold * den
                         THEN /\ Len(dets) = 1
                              /\ dets[1].severity =
                                    IF 100 * num > high_drift * den
                                    THEN "high" ELSE "medium"
                         ELSE dets = <<>>

\* C12: save_baseline is all or nothing: when it returned True the file and
\* the in-memory baseline both equal stats; when it returned False the file
\* and the in-memory baseline are both the complete prior baseline.
C12_SaveAtomic ==
    (dd_pc = "ready" /\ save_call /= None) =>
        IF save_result = TRUE
        THEN /\ baseline_file = JsonFile(save_call.stats)
             /\ baseline = save_call.stats
        ELSE /\ baseline_file = save_call.file
             /\ baseline = save_call.baseline

\* the same for the in-memory baseline, and for the file when save_baseline
\* returned True
SaveReplacesWholesale ==
    (dd_pc = "ready" /\ save_call /= None) =>
        IF save_result = TRUE
        THEN /\ baseline_file = JsonFile(save_call.stats)
             /\ baseline = save_call.stats
        ELSE baseline = save_call.baseline

(***************************************************************************)
(* Confidence tiers                                                        *)
(***************************************************************************)

\* the tier the rule "high > 0.7, moderate > 0.5, else low" gives a
\* confidence reported in hundredths
TierOfReported(c) ==
    IF c > 70 THEN "high" ELSE IF c > 50 THEN "moderate" ELSE "low"

\* C20: every insight generate returns carries the tier that the rule gives
\* its reported (two-decimal) confidence: high iff > 0.7, moderate iff
\* > 0.5 and <= 0.7, low otherwise
C20_TierMatchesReported ==
    Generated =>
        \A i \in 1..Len(insights.insights) :
            LET ins == insights.insights[i]
            IN  ins.confidence_level = TierOfReported(ins.confidence.v)

\* what generate does guarantee: the tier is the one of the confidence
\* before it is rounded, so it can differ from the rule only in the reported
\* values 0.70 and 0.50, and only upwards
TierWithinRounding ==
    Generated =>
        \A i \in 1..Len(insights.insights) :
            LET ins == insights.insights[i]
            IN  \/ ins.confidence_level = TierOfReported(ins.confidence.v)
                \/ ins.confidence.v = 70 /\ ins.confidence_level = "high"
                \/ ins.confidence.v = 50 /\ ins.confidence_level = "moderate"

(***************************************************************************)
(* SchemaValidator and the schema upgrade (utils/schema_validator.py)      *)
(*                                                                         *)
(* A JSON document: an object is a function from keys, an array is         *)
(* Lst(sequence), a string is Str(..), a number Num(..), null None.  The   *)
(* version tags and expected_impact are TLA+ strings.                      *)
(***************************************************************************)
Lst(s)    == [t |-> "seq", v |-> s]
IsList(x) == ~IsDict(x) /\ x.t = "seq"
IsStr(x)  == ~IsDict(x) /\ x.t = "str"

\* the violations a validator reports: the item index (0 for the top level),
\* the field, the element index within an array field (0 otherwise) and
\* what is wrong
ViolationAt(idx, field, elem, what) ==
    [idx |-> idx, field |-> field, elem |-> elem, what |-> what]
Violation(idx, field, what) == ViolationAt(idx, field, 0, what)

MissingIn(item, idx, fields) ==
    LET present == SelectSeq(fields, LAMBDA f : f \notin DOMAIN item)
    IN  [k \in 1..Len(present) |-> Violation(idx, present[k], "missing")]

\* schema_validator.py:97-107 and 159-169  the top-level checks but the root
TopLevelErrors(doc, list_field) ==
    (IF list_field \notin DOMAIN doc
     THEN <<Violation(0, list_field, "missing")>> ELSE <<>>)
    \o
    (IF "schema_version" \notin DOMAIN doc
     THEN <<Violation(0, "schema_version", "missing")>>
     ELSE IF doc["schema_version"] /= "2.0"
     THEN <<Violation(0, "schema_version", "invalid")>> ELSE <<>>)

\* schema_validator.py:117-142  the checks of one insight
InsightErrors(insight, idx) ==
    IF ~IsDict(insight) THEN <<Violation(idx, "", "not a dictionary")>>
    ELSE
    MissingIn(insight, idx, <<"hypothesis", "evidence", "expected_impact",
                              "confidence", "schema_version">>)
    \o
    (IF "hypothesis" \in DOMAIN insight /\ ~IsStr(insight["hypothesis"])
     THEN <<Violation(idx, "hypothesis", "not a string")>> ELSE <<>>)
    \o
    (IF "evidence" \in DOMAIN insight /\ ~IsDict(insight["evidence"])
     THEN <<Violation(idx, "evidence", "not a dictionary")>> ELSE <<>>)
    \o
    (IF "confidence" \in DOMAIN insight
     THEN LET conf == insight["confidence"]
          IN  IF ~IsNumber(conf)
              THEN <<Violation(idx, "confidence", "not a number")>>
              ELSE IF ~(0 <= conf.v /\ conf.v <= 100)
              THEN <<Violation(idx, "confidence", "out of range")>> ELSE <<>>
     ELSE <<>>)
    \o
    (IF "schema_version" \in DOMAIN insight /\ insight["schema_version"] /= "2.0"
     THEN <<Violation(idx, "schema_version", "invalid")>> ELSE <<>>)

RECURSIVE InsightsErrorsFrom(_, _)
InsightsErrorsFrom(items, i) ==
    IF i > Len(items) THEN <<>>
    ELSE InsightErrors(items[i], i) \o InsightsErrorsFrom(items, i + 1)

Verdict(errors) == [is_valid |-> errors = <<>>, errors |-> errors]

\* SchemaValidator.validate_insights (schema_validator.py:84-144)
validate_insights(insights_dict) ==
    IF ~IsDict(insights_dict)
    THEN [is_valid |-> FALSE, errors |-> <<Violation(0, "", "not a dictionary")>>]
    ELSE
    LET top == TopLevelErrors(insights_dict, "insights") IN
    IF "insights" \notin DOMAIN insights_dict THEN Verdict(top)
    ELSE IF ~IsList(insights_dict["insights"])
    THEN [is_valid |-> FALSE,
          errors |-> top \o <<Violation(0, "insights", "not an array")>>]
    ELSE Verdict(top \o InsightsErrorsFrom(insights_dict["insights"].v, 1))

\* schema_validator.py:187-201  the checks of one array-of-strings field
StringArrayErrors(creative, idx, field) ==
    IF field \notin DOMAIN creative THEN <<>>
    ELSE IF ~IsList(creative[field])
    THEN <<Violation(idx, field, "not an array")>>
    ELSE LET elems == creative[field].v
             bad   == SelectSeq([j \in 1..Len(elems) |-> j],
                                LAMBDA j : ~IsStr(elems[j]))
         IN  [k \in 1..Len(bad) |->
                 ViolationAt(idx, field, bad[k], "not a string")]

\* schema_validator.py:175-204  the checks of one creative
CreativeErrors(creative, idx) ==
    IF ~IsDict(creative) THEN <<Violation(idx, "", "not a dictionary")>>
    ELSE
    MissingIn(creative, idx, <<"campaign", "issue", "recommended_headlines",
                               "recommended_messages", "cta", "schema_version">>)
    \o StringArrayErrors(creative, idx, "recommended_headlines")
    \o StringArrayErrors(creative, idx, "recommended_messages")
    \o
    (IF "schema_version" \in DOMAIN creative /\ creative["schema_version"] /= "2.0"
     THEN <<Violation(idx, "schema_version", "invalid")>> ELSE <<>>)

RECURSIVE CreativesErrorsFrom(_, _)
CreativesErrorsFrom(items, i) ==
    IF i > Len(items) THEN <<>>
    ELSE CreativeErrors(items[i], i) \o CreativesErrorsFrom(items, i + 1)

\* SchemaValidator.validate_creatives (schema_validator.py:146-209)
validate_creatives(creatives_dict) ==
    IF ~IsDict(creatives_dict)
    THEN [is_valid |-> FALSE, errors |-> <<Violation(0, "", "not a dictionary")>>]
    ELSE
    LET top == TopLevelErrors(creatives_dict, "creatives") IN
    IF "creatives" \notin DOMAIN creatives_dict THEN Verdict(top)
    ELSE IF ~IsList(creatives_dict["creatives"])
    THEN [is_valid |-> FALSE,
          errors |-> top \o <<Violation(0, "creatives", "not an array")>>]
    ELSE Verdict(top \o CreativesErrorsFrom(creatives_dict["creatives"].v, 1))

\* mutant of LegacyTier: `>=` instead of `>`
LegacyTier_Inclusive(c) ==
    IF c >= 70 THEN "high" ELSE IF c >= 50 THEN "moderate" ELSE "low"

\* the tier upgrade_insights_to_v2 derives (schema_validator.py:238-242)
LegacyTier(c) ==
    IF c > 70 THEN "high" ELSE IF c > 50 THEN "moderate" ELSE "low"

\* schema_validator.py:233-246  one upgraded insight
UpgradedInsight(insight) ==
    LET c == Get(insight, "confidence_estimate", Num(50))
    IN  [hypothesis       |-> Get(insight, "hypothesis", Str("")),
         evidence         |-> Get(insight, "evidence", EmptyDict),
         expected_impact  |-> Get(insight, "expected_impact", "Unknown"),
         confidence       |-> c,
         confidence_level |-> LegacyTier(c.v),
         analysis_type    |-> "legacy_v1_conversion",
         schema_version   |-> "2.0"]

\* upgrade_insights_to_v2 (schema_validator.py:216-247)
upgrade_insights_to_v2(old_insights) ==
    LET items == Get(old_insights, "insights", Lst(<<>>)) IN
    \* iterating a value that is no list
    IF ~IsList(items) THEN Raise("TypeError")
    \* insight.get on an element that is no mapping
    ELSE IF \E i \in 1..Len(items.v) : ~IsDict(items.v[i])
    THEN Raise("AttributeError")
    \* `> 0.7` on a confidence_estimate that is no number
    ELSE IF \E i \in 1..Len(items.v) :
                ~IsNumber(Get(items.v[i], "confidence_estimate", Num(50)))
    THEN Raise("TypeError")
    ELSE Ok([insights |-> Lst([i \in 1..Len(items.v) |-> UpgradedInsight(items.v[i])]),
             schema_version |-> "2.0"])

\* schema_validator.py:267-275  one upgraded creative
UpgradedCreative(creative) ==
    [campaign              |-> Get(creative, "campaign", None),
     issue                 |-> Get(creative, "issue", Str("Unknown")),
     recommended_headlines |-> Get(creative, "recommended_headlines", Lst(<<>>)),
     recommended_messages  |-> Get(creative, "recommended_messages", Lst(<<>>)),
     cta                   |-> Get(creative, "cta", None),
     schema_version        |-> "2.0"]

\* upgrade_creatives_to_v2 (schema_validator.py:250-276)
upgrade_creatives_to_v2(old_creatives) ==
    LET items == Get(old_creatives, "creatives", Lst(<<>>)) IN
    IF ~IsList(items) THEN Raise("TypeError")
    ELSE IF \E i \in 1..Len(items.v) : ~IsDict(items.v[i])
    THEN Raise("AttributeError")
    ELSE Ok([creatives |-> Lst([i \in 1..Len(items.v) |-> UpgradedCreative(items.v[i])]),
             schema_version |-> "2.0"])

\* ---- the required-field lists of the declared schemas -------------------
\* INSIGHTS_SCHEMA_V2 (schema_validator.py:25): required of an insight
InsightRequired ==
    <<"hypothesis", "evidence", "expected_impact", "confidence", "schema_version">>
\* INSIGHTS_SCHEMA_V2 (schema_validator.py:30): required of the evidence
EvidenceRequired ==
    <<"baseline_value", "current_value", "absolute_delta", "relative_delta",
      "diagnosis">>
\* CREATIVES_SCHEMA_V2 (schema_validator.py:59): required of a creative
CreativeRequired ==
    <<"campaign", "issue", "diagnosis", "recommended_headlines",
      "recommended_messages", "cta", "rationale", "schema_version">>

\* ---- documents ----------------------------------------------------------
MaxDocItems == 2

SchemaEvidence ==
    [baseline_value |-> Num(1000), current_value |-> Num(600),
     absolute_delta |-> Num(-400), relative_delta |-> Num(-400),
     diagnosis |-> Str("severe_performance_degradation")]

V2Insight(conf) ==
    [hypothesis |-> Str("h"), evidence |-> SchemaEvidence,
     expected_impact |-> "High", confidence |-> conf, schema_version |-> "2.0"]

\* the elements an 'insights' array handed to validate_insights may hold
V2InsightItems ==
    { V2Insight(Num(80)),
      V2Insight(Num(0)),
      \* confidence out of [0, 1], and not a number
      V2Insight(Num(101)),
      V2Insight(Num(-1)),
      V2Insight(Str("0.8")),
      \* evidence without its required fields, and evidence that is no mapping
      [V2Insight(Num(100)) EXCEPT !["evidence"] = EmptyDict],
      [V2Insight(Num(80)) EXCEPT !["evidence"] = [baseline_value |-> Num(1000)]],
      [V2Insight(Num(80)) EXCEPT !["evidence"] = None],
      \* hypothesis that is no string
      [V2Insight(Num(80)) EXCEPT !["hypothesis"] = Num(1)],
      \* a wrong version tag
      [V2Insight(Num(80)) EXCEPT !["schema_version"] = "1.0"],
      \* missing fields
      [hypothesis |-> Str("h"), evidence |-> SchemaEvidence],
      EmptyDict,
      \* an element that is no mapping
      None }

\* an insight of schema version 1 (confidence_estimate is optional)
V1Insight == [hypothesis |-> Str("h"), evidence |-> [key |-> Str("value")],
              expected_impact |-> "High"]

V1InsightItems ==
    {V1Insight} \cup
    { V1Insight @@ [confidence_estimate |-> Num(c)] : c \in {0, 45, 50, 51, 70, 71, 100} }

Strings(ss) == Lst([i \in 1..Len(ss) |-> Str(ss[i])])

V1Creative ==
    [campaign |-> Str("TestCampaign"), issue |-> Str("Low CTR"),
     recommended_headlines |-> Strings(<<"H1", "H2">>),
     recommended_messages |-> Strings(<<"M1">>), cta |-> Str("Shop")]

V1CreativeItems ==
    { V1Creative,
      [V1Creative EXCEPT !["campaign"] = None, !["cta"] = None,
                         !["recommended_headlines"] = Lst(<<>>)],
      \* fields left out
      [issue |-> Str("Low CTR")],
      EmptyDict }

V2Creative ==
    V1Creative @@ [diagnosis |-> Str("creative_fatigue"), rationale |-> Str("r"),
                   schema_version |-> "2.0"]

\* the elements a 'creatives' array handed to validate_creatives may hold
V2CreativeItems ==
    { V2Creative,
      \* the two fields only the declared schema requires, left out
      V1Creative @@ [schema_version |-> "2.0"],
      V1Creative @@ [diagnosis |-> Str("creative_fatigue"), schema_version |-> "2.0"],
      \* array fields: an element that is no string, and no array at all
      [V2Creative EXCEPT !["recommended_headlines"] =
                             Lst(<<Str("H1"), Num(2), None>>)],
      [V2Creative EXCEPT !["recommended_messages"] = Str("M1")],
      [V2Creative EXCEPT !["schema_version"] = "1.0"],
      [campaign |-> None, schema_version |-> "2.0"],
      EmptyDict,
      None }

\* the documents built of a list field and a top-level version tag
Docs(list_field, items, versions) ==
    LET list(l) == [k \in {list_field} |-> Lst(l)] IN
    { list(l) : l \in SeqsUpTo(items, MaxDocItems) }
    \cup
    { list(l) @@ [schema_version |-> v] : l \in SeqsUpTo(items, MaxDocItems),
                                           v \in versions }

\* documents that have no list under the list field, or are no mapping
Malformed(list_field) ==
    { None,
      Lst(<<>>),
      [schema_version |-> "2.0"],
      [k \in {list_field} |-> None] @@ [schema_version |-> "2.0"],
      [k \in {list_field} |-> None] }

InsightDocs ==
    Docs("insights", V2InsightItems, {"2.0"})
    \cup Docs("insights", V1InsightItems, {"1.0"})
    \cup Malformed("insights")

CreativeDocs ==
    Docs("creatives", V2CreativeItems, {"2.0"})
    \cup Docs("creatives", V1CreativeItems, {"1.0"})
    \cup Malformed("creatives")

SchemaInit ==
    /\ ScIdle /\ IaIdle /\ DdIdle /\ CsIdle /\ PlIdle /\ FnIdle
    /\ \/ sch_kind = "insights" /\ sch_input \in InsightDocs
       \/ sch_kind = "creatives" /\ sch_input \in CreativeDocs
    /\ sch_doc = sch_input
    /\ sch_upgrade = None
    /\ sch_verdict = None
    /\ sch_pc = "ready"

Upgraded(r) ==
    /\ sch_upgrade' = r
    /\ sch_doc' = IF r.raised THEN sch_doc ELSE r.value
    /\ sch_pc' = IF r.raised THEN "raised" ELSE "upgraded"
    /\ UNCHANGED <<sch_kind, sch_input, sch_verdict, scVars, iaVars, ddVars, csVars, plVars, fnVars>>

\* upgrade_insights_to_v2(doc); .get on a document that is no mapping raises
UpgradeInsights ==
    /\ sch_pc = "ready" /\ sch_kind = "insights"
    /\ Upgraded(IF IsDict(sch_doc) THEN upgrade_insights_to_v2(sch_doc)
                ELSE Raise("AttributeError"))

\* upgrade_creatives_to_v2(doc)
UpgradeCreatives ==
    /\ sch_pc = "ready" /\ sch_kind = "creatives"
    /\ Upgraded(IF IsDict(sch_doc) THEN upgrade_creatives_to_v2(sch_doc)
                ELSE Raise("AttributeError"))

\* SchemaValidator.validate_insights(doc)
ValidateInsights ==
    /\ sch_pc \in {"ready", "upgraded"} /\ sch_kind = "insights"
    /\ sch_verdict' = validate_insights(sch_doc)
    /\ sch_pc' = "validated"
    /\ UNCHANGED <<sch_kind, sch_input, sch_doc, sch_upgrade, scVars, iaVars, ddVars, csVars, plVars, fnVars>>

\* SchemaValidator.validate_creatives(doc)
ValidateCreatives ==
    /\ sch_pc \in {"ready", "upgraded"} /\ sch_kind = "creatives"
    /\ sch_verdict' = validate_creatives(sch_doc)
    /\ sch_pc' = "validated"
    /\ UNCHANGED <<sch_kind, sch_input, sch_doc, sch_upgrade, scVars, iaVars, ddVars, csVars, plVars, fnVars>>

SchemaNext ==
    \/ UpgradeInsights
    \/ UpgradeCreatives
    \/ ValidateInsights
    \/ ValidateCreatives

SpecSchema == SchemaInit /\ [][SchemaNext]_vars

SchemaTypeOK == sch_pc \in {"ready", "upgraded", "raised", "validated"}

\* ---- claims about the schema functions ---------------------------------
\* a well-formed insights object of schema version 1
WellFormedV1Insights(doc) ==
    /\ IsDict(doc)
    /\ "insights" \in DOMAIN doc
    /\ IsList(doc["insights"])
    /\ \A i \in 1..Len(doc["insights"].v) :
          LET it == doc["insights"].v[i] IN
          /\ IsDict(it)
          /\ {"hypothesis", "evidence", "expected_impact"} \subseteq DOMAIN it
          /\ IsStr(it["hypothesis"])
          /\ IsDict(it["evidence"])
          /\ "confidence_estimate" \in DOMAIN it =>
                /\ IsNumber(it["confidence_estimate"])
                /\ it["confidence_estimate"].v \in 0..100

AllStrings(x) == IsList(x) /\ \A j \in 1..Len(x.v) : IsStr(x.v[j])

\* a well-formed creatives object of schema version 1
WellFormedV1Creatives(doc) ==
    /\ IsDict(doc)
    /\ "creatives" \in DOMAIN doc
    /\ IsList(doc["creatives"])
    /\ \A i \in 1..Len(doc["creatives"].v) :
          LET it == doc["creatives"].v[i] IN
          /\ IsDict(it)
          /\ "recommended_headlines" \in DOMAIN it => AllStrings(it["recommended_headlines"])
          /\ "recommended_messages" \in DOMAIN it => AllStrings(it["recommended_messages"])

WellFormedV1 ==
    \/ sch_kind = "insights" /\ WellFormedV1Insights(sch_input)
    \/ sch_kind = "creatives" /\ WellFormedV1Creatives(sch_input)

UpgradedCreativesValidated ==
    /\ sch_pc = "validated" /\ sch_upgrade /= None /\ sch_kind = "creatives"
    /\ WellFormedV1Creatives(sch_input)
    /\ Len(sch_input["creatives"].v) = 2
    /\ sch_verdict.is_valid

\* the elements of a sequence, as a set
Elements(seq) == {seq[i] : i \in 1..Len(seq)}

\* the violations of the declared insights schema (the item's and the
\* evidence's required fields, the confidence, the version tags) present in
\* a document whose 'insights' is an array
DeclaredInsightViolations(doc) ==
    Elements(TopLevelErrors(doc, "insights"))
    \cup
    UNION { LET it == doc["insights"].v[i] IN
            IF ~IsDict(it) THEN {}
            ELSE Elements(MissingIn(it, i, InsightRequired))
                 \cup
                 (IF "evidence" \in DOMAIN it /\ IsDict(it["evidence"])
                  THEN {ViolationAt(i, "evidence", 0, f) :
                           f \in {g \in Elements(EvidenceRequired) :
                                     g \notin DOMAIN it["evidence"]}}
                  ELSE {})
                 \cup
                 (IF "confidence" \in DOMAIN it /\ ~IsNumber(it["confidence"])
                  THEN {Violation(i, "confidence", "not a number")}
                  ELSE IF "confidence" \in DOMAIN it
                          /\ ~(it["confidence"].v \in 0..100)
                  THEN {Violation(i, "confidence", "out of range")}
                  ELSE {})
                 \cup
                 (IF "schema_version" \in DOMAIN it /\ it["schema_version"] /= "2.0"
                  THEN {Violation(i, "schema_version", "invalid")} ELSE {})
          : i \in 1..Len(doc["insights"].v) }

NonStringElements(it, i, field) ==
    IF field \in DOMAIN it /\ IsList(it[field])
    THEN {ViolationAt(i, field, j, "not a string") :
             j \in {k \in 1..Len(it[field].v) : ~IsStr(it[field].v[k])}}
    ELSE {}

\* the same for the declared creatives schema
DeclaredCreativeViolations(doc) ==
    Elements(TopLevelErrors(doc, "creatives"))
    \cup
    UNION { LET it == doc["creatives"].v[i] IN
            IF ~IsDict(it) THEN {}
            ELSE Elements(MissingIn(it, i, CreativeRequired))
                 \cup NonStringElements(it, i, "recommended_headlines")
                 \cup NonStringElements(it, i, "recommended_messages")
                 \cup
                 (IF "schema_version" \in DOMAIN it /\ it["schema_version"] /= "2.0"
                  THEN {Violation(i, "schema_version", "invalid")} ELSE {})
          : i \in 1..Len(doc["creatives"].v) }

Validated == sch_pc = "validated"

HasItems == IsDict(sch_doc) /\ sch_kind \in DOMAIN sch_doc /\ IsList(sch_doc[sch_kind])

DeclaredViolations ==
    IF sch_kind = "insights" THEN DeclaredInsightViolations(sch_doc)
    ELSE DeclaredCreativeViolations(sch_doc)

\* C16: a validation returns is_valid true iff it reports no violation, and
\* it reports every violation of the declared version 2 shape present in the
\* document: the top-level version tag, every missing required field of
\* every item (for insights the required evidence fields too, for creatives
\* diagnosis and rationale too), every confidence that is no number or out
\* of [0, 1], every element of an array field that is no string, every wrong
\* item version tag.
C16_ValidationExhaustive ==
    Validated =>
        /\ sch_verdict.is_valid <=> sch_verdict.errors = <<>>
        /\ HasItems => DeclaredViolations \subseteq Elements(sch_verdict.errors)

\* the violations the validators never report
Unreported(v) ==
    \/ sch_kind = "insights" /\ v.field = "evidence"
                             /\ v.what \in Elements(EvidenceRequired)
    \/ sch_kind = "creatives" /\ v.what = "missing"
                              /\ v.field \in {"diagnosis", "rationale"}

\* what the validators do report: every declared violation but those
ExhaustiveButUnreported ==
    Validated =>
        /\ sch_verdict.is_valid <=> sch_verdict.errors = <<>>
        /\ HasItems => \A v \in DeclaredViolations :
                          Unreported(v) \/ v \in Elements(sch_verdict.errors)

\* ---- the object generate returns, as a document -------------------------
\* the returned object with its 'insights' list as a JSON array
AsInsightsDocument(out) == [out EXCEPT !["insights"] = Lst(out["insights"])]

\* C17: for every summary the object generate returns has the top-level
\* version tag '2.0' and at least one insight; every insight has a string
\* hypothesis, an evidence mapping with baseline_value, current_value,
\* absolute_delta, relative_delta and diagnosis, an expected_impact, the
\* version tag '2.0' and a numeric confidence in [0, 1]; validate_insights
\* accepts the object with no violation, and its version tag does not
\* trigger the upgrade.
C17_OutputContract ==
    ia_pc = "generated" =>
        /\ IsDict(insights)
        /\ "schema_version" \in DOMAIN insights
        /\ insights["schema_version"] = "2.0"
        /\ Len(insights["insights"]) >= 1
        /\ \A i \in 1..Len(insights["insights"]) :
              LET ins == insights["insights"][i] IN
              /\ IsDict(ins)
              /\ Elements(InsightRequired) \subseteq DOMAIN ins
              /\ IsStr(ins["hypothesis"])
              /\ IsDict(ins["evidence"])
              /\ Elements(EvidenceRequired) \subseteq DOMAIN ins["evidence"]
              /\ ins["schema_version"] = "2.0"
              /\ IsNumber(ins["confidence"])
              /\ ins["confidence"].v \in 0..100
        /\ validate_insights(AsInsightsDocument(insights)).is_valid
        /\ validate_insights(AsInsightsDocument(insights)).errors = <<>>

\* generate returned a drop insight followed by the error insight, and the
\* validator accepted the object
C17_Witness ==
    /\ ia_pc = "generated"
    /\ gen_error /= None
    /\ Len(insights["insights"]) = 2
    /\ insights["insights"][1].analysis_type = "roas_performance"
    /\ insights["insights"][2].analysis_type = "error"
    /\ validate_insights(AsInsightsDocument(insights)).is_valid

\* ---- missing evidence and severity -------------------------------------
\* an insight whose evidence (a mapping, possibly lacking required fields)
\* and confidence hold values of the expected types
WellTypedInsight(ins) ==
    /\ IsDict(ins)
    /\ LET evidence == Get(ins, "evidence", EmptyDict) IN
       /\ IsDict(evidence)
       /\ \A k \in DOMAIN evidence :
             IF k = "diagnosis" THEN evidence[k].t = "str" ELSE IsNumber(evidence[k])
    /\ "confidence" \in DOMAIN ins =>
          /\ IsNumber(ins["confidence"])
          /\ ins["confidence"].v \in 0..100

\* C18: whenever validate returns, an insight whose evidence lacks any subset
\* of the required fields was validated on the normal path with 0 in place
\* of each missing numeric field and 'unknown' in place of a missing
\* diagnosis: its result carries a severity of the four, a
\* statistical_validation verdict and a confidence in [0, 1].  For empty
\* evidence the severity is 'low', the verdict not significant and the
\* confidence max(0, original - 0.2).
C18_MissingEvidenceTolerated ==
    [][(Validate /\ ~validated'.raised) =>
          /\ Len(validated'.validated) = Len(insights["insights"])
          /\ \A i \in 1..Len(insights["insights"]) :
                LET ins      == insights["insights"][i]
                    out      == validated'.validated[i]
                    evidence == Get(ins, "evidence", EmptyDict)
                    original == Get(ins, "confidence", Num(50))
                IN  WellTypedInsight(ins) =>
                      /\ "statistical_validation" \in DOMAIN out
                      /\ DOMAIN out["evidence"] =
                            DOMAIN evidence \cup Elements(required_fields)
                      /\ \A k \in DOMAIN out["evidence"] :
                            out["evidence"][k] =
                               (IF k \in DOMAIN evidence THEN evidence[k]
                                ELSE IF k = "diagnosis"
                                THEN [t |-> "str", v |-> <<"unknown">>]
                                ELSE Num(0))
                      /\ out["severity"] \in {"critical", "high", "medium", "low"}
                      /\ out["confidence"].v \in 0..100
                      /\ DOMAIN evidence = {} =>
                            /\ out["severity"] = "low"
                            /\ ~out["statistical_validation"].is_significant
                            /\ out["confidence"] = Num(Max(0, original.v - 20))
      ]_vars

\* validate returned a result of the normal path for an insight that had no
\* evidence field at all (confidence 0.1 becoming 0.0) and for one that
\* lacked its diagnosis only
C18_Witness ==
    /\ ia_pc = "validated"
    /\ ~validated.raised
    /\ Len(validated.validated) = 2
    /\ LET a == validated.validated[1]
           b == validated.validated[2]
       IN  /\ "statistical_validation" \in DOMAIN a
           /\ a["evidence"] = FillMissing(EmptyDict)
           /\ a["confidence"] = Num(0)
           /\ a["severity"] = "low"
           /\ "statistical_validation" \in DOMAIN b
           /\ b["evidence"] =
                 [FullEvidence EXCEPT !["diagnosis"] = [t |-> "str", v |-> <<"unknown">>]]

\* ---- _calculate_severity on its own --------------------------------------
\* relative_delta (thousandths), absolute_delta and baseline_value
\* (hundredths) and spend, each present, zero or missing
SeverityEvidence ==
    LET Field(name, values) == {EmptyDict} \cup {[k \in {name} |-> Num(x)] : x \in values}
    IN  { r @@ a @@ b @@ sp :
            r  \in Field("relative_delta", {0, 150, -151, 250, -251, 500, -501}),
            a  \in Field("absolute_delta", {0, -400, 400}),
            b  \in Field("baseline_value", {0, 1000}),
            sp \in Field("spend", {0, 10000, 10001, 12500, 12501}) }

SeverityInit ==
    /\ ScIdle /\ IaIdle /\ DdIdle /\ SvIdle /\ PlIdle /\ FnIdle
    /\ sev_evidence \in SeverityEvidence
    /\ sev_result = None
    /\ sev_pc = "ready"

\* EvaluatorAgent._calculate_severity(evidence)
CalculateSeverity ==
    /\ sev_pc = "ready"
    /\ sev_result' = calculate_severity(sev_evidence)
    /\ sev_pc' = "done"
    /\ UNCHANGED <<sev_evidence, scVars, iaVars, ddVars, svVars, plVars, fnVars>>

SeverityNext == CalculateSeverity

SpecSeverity == SeverityInit /\ [][SeverityNext]_vars

\* the classification rule, first match wins; a missing field counts as 0
SeverityRule(evidence) ==
    LET rel      == Abs(Get(evidence, "relative_delta", Num(0)).v)
        delta    == Get(evidence, "absolute_delta", Num(0)).v
        base     == Get(evidence, "baseline_value", Num(0)).v
        spent    == Get(evidence, "spend", Num(0)).v
        \* |absolute delta * spend|, the delta in hundredths
        impact   == IF base /= 0 THEN Abs(delta * spent) ELSE 0
    IN  IF impact > 50000 * 100 \/ rel > 500 THEN "critical"
        ELSE IF rel > 250 \/ spent > 10000 THEN "high"
        ELSE IF rel > 150 THEN "medium"
        ELSE "low"

\* C19: for every evidence mapping (relative_delta, absolute_delta,
\* baseline_value and spend each present, zero or missing)
\* _calculate_severity returns without raising exactly the severity of the
\* rule: critical if the revenue impact (|absolute delta * spend| if the
\* baseline is non-zero, else 0) > 50,000 or |relative delta| > 0.5;
\* otherwise high if |relative delta| > 0.25 or spend > 10,000; otherwise
\* medium if |relative delta| > 0.15; otherwise low.
C19_SeverityRule ==
    sev_pc = "done" =>
        /\ ~sev_result.raised
        /\ sev_result.value \in {"critical", "high", "medium", "low"}
        /\ sev_result.value = SeverityRule(sev_evidence)

\* a revenue impact of 50,004 makes an otherwise 'high' evidence critical
C19_Witness ==
    /\ sev_pc = "done"
    /\ sev_evidence = [relative_delta |-> Num(0), absolute_delta |-> Num(-400),
                       baseline_value |-> Num(1000), spend |-> Num(12501)]
    /\ sev_result = Ok("critical")

\* the four severities are all returned, 'medium' and 'low' with fields
\* missing
AllSeveritiesWitness ==
    /\ sev_pc = "done"
    /\ DOMAIN sev_evidence = {"relative_delta"}
    /\ sev_result = Ok("medium")

(***************************************************************************)
(* main (orchestrator/run.py): one pipeline run after the other over the   *)
(* same baseline file.  The five wrapped stages run through the safe_call  *)
(* actions above.                                                          *)
(***************************************************************************)
MaxRuns == 2

Stages == <<"plan", "data", "insights", "validate", "creatives">>

\* run.py:47,53,61,67,73  max_retries of the stage's wrapper
StageRetries(stage) == IF stage = "data" THEN 2 ELSE 1

\* safety.py:60  base_delay is left at its default, 0.5 s
StageBaseDelay == 5

\* safety.py:218-231
FALLBACK_SUMMARY ==
    [date_range |-> Str("N/A"),
     campaigns |-> [t |-> "list", v |-> 0],
     overall_metrics |-> [avg_ctr |-> None, avg_roas |-> None,
                          total_spend |-> None, total_revenue |-> None],
     top_drops |-> [roas_drop_campaigns |-> <<>>, ctr_drop_campaigns |-> <<>>]]

\* safety.py:233-241
FALLBACK_INSIGHTS ==
    [insights |-> <<[hypothesis |-> Str("Unable to generate insights"),
                     evidence |-> EmptyDict,
                     expected_impact |-> "Unknown",
                     confidence_estimate |-> Num(0),
                     schema_version |-> "2.0"]>>]

\* safety.py:243-252
FALLBACK_CREATIVES ==
    [creatives |-> Lst(<<[campaign |-> None,
                          issue |-> Str("System error"),
                          recommended_headlines |-> Strings(<<"Please review data and retry">>),
                          recommended_messages |-> Strings(<<"An error occurred">>),
                          cta |-> None,
                          schema_version |-> "2.0"]>>)]

\* safety.py:254-261
FALLBACK_VALIDATED ==
    [validated |-> <<[hypothesis |-> Str("Unable to validate"),
                      confidence |-> Num(0),
                      validation_notes |-> <<"System error during validation">>,
                      schema_version |-> "2.0"]>>]

\* mutant of StageFallback: the planning stage is given no fallback
StageFallback_PlanNone(stage) ==
    CASE stage = "plan"      -> None
      [] stage = "data"      -> FALLBACK_SUMMARY
      [] stage = "insights"  -> FALLBACK_INSIGHTS
      [] stage = "validate"  -> FALLBACK_VALIDATED
      [] stage = "creatives" -> FALLBACK_CREATIVES

\* run.py:47,53,61,67,73  fallback of the stage's wrapper
StageFallback(stage) ==
    CASE stage = "plan"      -> [steps |-> Strings(<<"load_and_summarize_data">>)]
      [] stage = "data"      -> FALLBACK_SUMMARY
      [] stage = "insights"  -> FALLBACK_INSIGHTS
      [] stage = "validate"  -> FALLBACK_VALIDATED
      [] stage = "creatives" -> FALLBACK_CREATIVES

\* the plan of PlannerAgent.plan for a query that adapts no step
\* (planner.py:21-29,171-181)
PlannerPlan ==
    [steps |-> Strings(<<"load_and_summarize_data", "analyze_roas_trend",
                         "identify_top_underperformers", "generate_hypotheses",
                         "validate_hypotheses", "generate_creative_recommendations",
                         "save_outputs">>),
     query |-> Str("Analyze ROAS drop")]

\* a summary as DataAgent.summarize builds it (data_agent.py:136-144)
DataSummary(n_campaigns, roas_drops) ==
    [date_range |-> Str("2025-01-01 to 2025-03-31"),
     campaigns |-> [t |-> "list", v |-> n_campaigns],
     overall_metrics |-> [avg_ctr |-> Num(2), avg_roas |-> Num(600),
                          total_spend |-> Num(100000), total_revenue |-> Num(600000)],
     top_drops |-> [roas_drop_campaigns |-> roas_drops, ctr_drop_campaigns |-> <<>>]]

PipelineSummaries == { DataSummary(3, <<ScenarioARecord>>) }

\* CreativeAgent.generate's document for the summary's one diagnosed
\* campaign (creative_agent.py:104-114,130)
RealCreatives ==
    [creatives |-> Lst(<<[campaign |-> Str("A"),
                          diagnosis |-> Str("performance_degradation"),
                          rationale |-> Str("General performance drop"),
                          creatives |-> Lst(<<>>),
                          issue |-> Str("performance degradation"),
                          recommended_headlines |-> Strings(<<"A: tighten offer and proof">>),
                          recommended_messages |-> Strings(<<"Clarify the primary benefit">>),
                          cta |-> Str("Get the offer"),
                          schema_version |-> "2.0"]>>),
     schema_version |-> "2.0"]

\* bool(x) of a JSON document
TruthyDoc(x) == IF IsDict(x) THEN DOMAIN x /= {} ELSE Truthy(x)

\* run.py:293  `if drift_detector and not drift_detector.baseline:`
ShouldSaveBaseline(enabled, b) == enabled /\ ~TruthyDoc(b)

\* the values of overall_metrics that are numbers (drift_detector.py:83-90)
NumericMetrics(overall_metrics) ==
    LET names == {k \in DOMAIN overall_metrics : IsNumber(overall_metrics[k])}
    IN  [k \in names |-> [value |-> overall_metrics[k]]]

\* item['change'] of the records that have one (drift_detector.py:92-100)
ChangesOf(items) ==
    LET with == SelectSeq(items, LAMBDA item : Get(item, "change", None) /= None)
    IN  [i \in 1..Len(with) |-> with[i]["change"].v]

\* DriftDetector.compute_stats (drift_detector.py:54-132), of a summary that
\* is a mapping with mappings and lists where the code expects them; the
\* mean is the only statistic of the changes that detect_drift reads
compute_stats(s) ==
    LET top_drops == Get(s, "top_drops", EmptyDict)
        roas      == Get(top_drops, "roas_drop_campaigns", <<>>)
        ctr       == Get(top_drops, "ctr_drop_campaigns", <<>>)
        mean(cs)  == [mean |-> Num(RoundDiv(SumSeq(cs), Len(cs)))]
        changes   ==
            (IF ChangesOf(roas) /= <<>>
             THEN [k \in {"roas_changes"} |-> mean(ChangesOf(roas))] ELSE EmptyDict)
            @@
            (IF ChangesOf(ctr) /= <<>>
             THEN [k \in {"ctr_changes"} |-> mean(ChangesOf(ctr))] ELSE EmptyDict)
    IN  Stats(Get(s, "campaigns", [t |-> "list", v |-> 0]).v, Len(roas), Len(ctr),
              NumericMetrics(Get(s, "overall_metrics", EmptyDict)) @@ changes)

\* the baseline files a first run may find
PipelineFiles ==
    { AbsentFile,
      JsonFile(compute_stats(DataSummary(10, <<ScenarioARecord>>))),
      \* files that were not written by save_baseline: {} and null
      JsonFile(EmptyDict),
      JsonFile(None) }

PipelineInit ==
    /\ ScIdle /\ IaIdle /\ SvIdle /\ CsIdle /\ FnIdle
    /\ baseline_file \in PipelineFiles
    /\ baseline = None /\ drift = None /\ detect_baseline = None
    /\ detect_current = None /\ save_call = None /\ saves = 0
    /\ save_result = None /\ dd_pc = "off"
    /\ pl_pc = "idle" /\ enable_drift_detection = FALSE /\ plan = None
    /\ creatives = None /\ events = <<>> /\ runs = 0 /\ run_start = None
    /\ abort_cause = None /\ stage_log = <<>>

\* main calls the wrapper of a stage: the decorator's arguments
EnterStage(stage) ==
    /\ max_retries' = StageRetries(stage)
    /\ base_delay' = StageBaseDelay
    /\ fallback' = StageFallback(stage)
    /\ sc_pc' = "idle"
    /\ attempt' = 0
    /\ last_exception' = None
    /\ calls' = <<>>
    /\ sleeps' = <<>>
    /\ outcome' = [kind |-> "running"]

\* the last wrapper has returned: its frame is gone
LeaveStages ==
    /\ sc_pc' = "off"
    /\ attempt' = 0
    /\ last_exception' = None
    /\ calls' = <<>>
    /\ sleeps' = <<>>
    /\ outcome' = [kind |-> "running"]
    /\ UNCHANGED <<max_retries, base_delay, fallback>>

\* the wrapper of the stage main is at has returned; fell_back tells whether
\* it returned the fallback
StageReturned(stage) ==
    /\ pl_pc = stage
    /\ sc_pc = "done"
    /\ outcome.kind = "returned"

FellBack == calls[Len(calls)].result /= "ok"

Logged(stage) ==
    /\ events' = Append(events, stage)
    /\ stage_log' = Append(stage_log, [stage |-> stage, fell_back |-> FellBack])

\* run.py:176-208  main starts: load_memory, the validator, the detector
\* (which reads the baseline file) if drift detection is enabled, then the
\* planning stage is called
StartRun(enable) ==
    /\ pl_pc \in {"idle", "done", "aborted"}
    /\ runs < MaxRuns
    /\ runs' = runs + 1
    /\ enable_drift_detection' = enable
    /\ baseline' = IF enable THEN LoadBaseline(baseline_file) ELSE None
    /\ dd_pc' = IF enable THEN "ready" ELSE "off"
    /\ run_start' = [file |-> baseline_file,
                     baseline |-> IF enable THEN LoadBaseline(baseline_file) ELSE None]
    /\ events' = IF enable THEN <<"read_baseline">> ELSE <<>>
    /\ stage_log' = <<>>
    /\ abort_cause' = None
    /\ plan' = None /\ creatives' = None
    /\ summary' = None /\ insights' = None /\ validated' = None
    /\ drift' = None /\ detect_baseline' = None /\ detect_current' = None
    /\ save_call' = None /\ saves' = 0 /\ save_result' = None
    /\ pl_pc' = "plan"
    /\ EnterStage("plan")
    /\ UNCHANGED <<baseline_file, decision_logs, gen_error, ia_pc, svVars, csVars, fnVars>>

\* run.py:209-218  the plan is logged, the data stage is called
PlanReturns ==
    /\ StageReturned("plan")
    /\ plan' = IF FellBack THEN outcome.value ELSE PlannerPlan
    /\ Logged("plan")
    /\ pl_pc' = "data"
    /\ EnterStage("data")
    /\ UNCHANGED <<enable_drift_detection, creatives, runs, run_start, abort_cause,
                   iaVars, ddVars, svVars, csVars, fnVars>>

\* run.py:219-241  the summary s (or the fallback) is logged, drift is
\* detected if the detector exists, the insight stage is called
DataReturns(s) ==
    /\ StageReturned("data")
    /\ LET value == IF FellBack THEN outcome.value ELSE s IN
       /\ summary' = value
       /\ IF enable_drift_detection
          THEN /\ drift' = detect_drift(baseline, compute_stats(value))
               /\ detect_baseline' = baseline
               /\ detect_current' = compute_stats(value)
               /\ events' = events \o <<"data", "detect_drift">>
          ELSE /\ events' = Append(events, "data")
               /\ UNCHANGED <<drift, detect_baseline, detect_current>>
    /\ stage_log' = Append(stage_log, [stage |-> "data", fell_back |-> FellBack])
    /\ pl_pc' = "insights"
    /\ EnterStage("insights")
    /\ UNCHANGED <<enable_drift_detection, plan, creatives, runs, run_start, abort_cause,
                   insights, decision_logs, validated, gen_error, ia_pc,
                   baseline_file, baseline, save_call, saves, save_result, dd_pc,
                   svVars, csVars, fnVars>>

\* run.py:242-254  the insights are logged, the validation stage is called
InsightsReturn ==
    /\ StageReturned("insights")
    /\ insights' = IF FellBack THEN outcome.value ELSE GenerateRun(summary).result
    /\ Logged("insights")
    /\ pl_pc' = "validate"
    /\ EnterStage("validate")
    /\ UNCHANGED <<enable_drift_detection, plan, creatives, runs, run_start, abort_cause,
                   summary, decision_logs, validated, gen_error, ia_pc,
                   ddVars, svVars, csVars, fnVars>>

\* run.py:255-268  the validated insights are counted, the creative stage
\* is called; validate has assigned defaults into the insights' evidence
ValidateReturns ==
    /\ StageReturned("validate")
    /\ LET r == ValidateFrom(insights["insights"], 1) IN
       IF FellBack
       THEN /\ validated' = outcome.value
            /\ UNCHANGED insights
       ELSE /\ validated' = [validated |-> r.validated, schema_version |-> "2.0"]
            /\ insights' = [insights EXCEPT !["insights"] = r.list]
    /\ Logged("validate")
    /\ pl_pc' = "creatives"
    /\ EnterStage("creatives")
    /\ UNCHANGED <<enable_drift_detection, plan, creatives, runs, run_start, abort_cause,
                   summary, decision_logs, gen_error, ia_pc,
                   ddVars, svVars, csVars, fnVars>>

\* run.py:269-271  the creatives are logged
CreativesReturn ==
    /\ StageReturned("creatives")
    /\ creatives' = IF FellBack THEN outcome.value ELSE RealCreatives
    /\ Logged("creatives")
    /\ pl_pc' = "persist"
    /\ LeaveStages
    /\ UNCHANGED <<enable_drift_detection, plan, runs, run_start, abort_cause,
                   iaVars, ddVars, svVars, csVars, fnVars>>

\* an exception leaves the wrapper of a stage and, uncaught, main
StageRaises ==
    /\ pl_pc \in Elements(Stages)
    /\ sc_pc = "done"
    /\ outcome.kind = "raised"
    /\ abort_cause' = outcome.type
    /\ pl_pc' = "aborted"
    /\ UNCHANGED <<enable_drift_detection, plan, creatives, events, runs, run_start,
                   stage_log, scVars, iaVars, ddVars, svVars, csVars, fnVars>>

\* validate_and_persist_outputs (run.py:131-169): a document without the
\* top-level version tag '2.0' is upgraded; the verdicts are only logged
Versioned(doc, upgraded) ==
    IF "schema_version" \in DOMAIN doc /\ doc["schema_version"] = "2.0"
    THEN doc ELSE upgraded.value

\* run.py:273-290  the outputs are brought to version 2, saved, and the
\* report is written
Persist ==
    /\ pl_pc = "persist"
    /\ insights' = Versioned(AsInsightsDocument(insights),
                             upgrade_insights_to_v2(AsInsightsDocument(insights)))
    /\ creatives' = Versioned(creatives, upgrade_creatives_to_v2(creatives))
    /\ events' = Append(events, "persist")
    /\ pl_pc' = "baseline"
    /\ UNCHANGED <<enable_drift_detection, plan, runs, run_start, abort_cause, stage_log,
                   summary, decision_logs, validated, gen_error, ia_pc,
                   scVars, ddVars, svVars, csVars, fnVars>>

\* save_json or the report's open/write raises (helpers.py:5-10,
\* run.py:285-287): the exception leaves main
PersistFails ==
    /\ pl_pc = "persist"
    /\ abort_cause' = "OSError"
    /\ pl_pc' = "aborted"
    /\ UNCHANGED <<enable_drift_detection, plan, creatives, events, runs, run_start,
                   stage_log, scVars, iaVars, ddVars, svVars, csVars, fnVars>>

\* run.py:292-296  the call of save_baseline, r telling how the write went:
\* "written", "refused" (nothing written) or "interrupted" (the file is
\* left truncated)
SaveFirstBaseline(r) ==
    /\ pl_pc = "baseline"
    /\ ShouldSaveBaseline(enable_drift_detection, baseline)
    /\ LET stats == compute_stats(summary) IN
       /\ save_call' = [stats |-> stats, file |-> baseline_file, baseline |-> baseline]
       /\ baseline_file' = CASE r = "written"     -> JsonFile(stats)
                             [] r = "refused"     -> baseline_file
                             [] r = "interrupted" -> CorruptFile
       /\ baseline' = IF r = "written" THEN stats ELSE baseline
    /\ save_result' = (r = "written")
    /\ saves' = saves + 1
    /\ events' = Append(events, "save_baseline")
    /\ pl_pc' = "memory"
    /\ UNCHANGED <<enable_drift_detection, plan, creatives, runs, run_start, abort_cause,
                   stage_log, drift, detect_baseline, detect_current, dd_pc,
                   scVars, iaVars, svVars, csVars, fnVars>>

\* run.py:293  the condition is false: no save
SkipBaseline ==
    /\ pl_pc = "baseline"
    /\ ~ShouldSaveBaseline(enable_drift_detection, baseline)
    /\ pl_pc' = "memory"
    /\ UNCHANGED <<enable_drift_detection, plan, creatives, events, runs, run_start,
                   abort_cause, stage_log, scVars, iaVars, ddVars, svVars, csVars, fnVars>>

\* run.py:298-312  update_memory, then main returns
UpdateMemory ==
    /\ pl_pc = "memory"
    /\ events' = Append(events, "update_memory")
    /\ pl_pc' = "done"
    /\ UNCHANGED <<enable_drift_detection, plan, creatives, runs, run_start, abort_cause,
                   stage_log, scVars, iaVars, ddVars, svVars, csVars, fnVars>>

\* save_memory raises (memory.py:14-17): the exception leaves main
UpdateMemoryFails ==
    /\ pl_pc = "memory"
    /\ abort_cause' = "OSError"
    /\ pl_pc' = "aborted"
    /\ UNCHANGED <<enable_drift_detection, plan, creatives, events, runs, run_start,
                   stage_log, scVars, iaVars, ddVars, svVars, csVars, fnVars>>

\* the steps of a run that was started
RunStep ==
    \/ Call
    \/ AttemptSucceeds
    \/ AttemptFailsRetry
    \/ AttemptFailsLast
    \/ AttemptInterrupted
    \/ PlanReturns
    \/ \E s \in PipelineSummaries : DataReturns(s)
    \/ InsightsReturn
    \/ ValidateReturns
    \/ CreativesReturn
    \/ StageRaises
    \/ Persist
    \/ PersistFails
    \/ \E r \in {"written", "refused", "interrupted"} : SaveFirstBaseline(r)
    \/ SkipBaseline
    \/ UpdateMemory
    \/ UpdateMemoryFails

PipelineNext ==
    \/ \E enable \in BOOLEAN : StartRun(enable)
    \/ RunStep

SpecPipeline == PipelineInit /\ [][PipelineNext]_vars

\* main is sequential code: a run that was started keeps taking steps
SpecPipelineFair == SpecPipeline /\ WF_vars(RunStep)

PipelineTypeOK ==
    pl_pc \in {"idle", "plan", "data", "insights", "validate", "creatives",
               "persist", "baseline", "memory", "done", "aborted"}

(***************************************************************************)
(* C13  Baseline file access of a run.                                     *)
(***************************************************************************)
Positions(e) == {i \in DOMAIN events : events[i] = e}

Started == pl_pc /= "idle"

\* the run's detector loaded a baseline: json.load returned a document
LoadedBaseline == IsDict(run_start.baseline) \/ run_start.baseline.t /= "none"

NonEmptyBaselineKept ==
    (Started /\ TruthyDoc(run_start.baseline)) =>
        /\ Positions("save_baseline") = {}
        /\ baseline_file = run_start.file

\* a run that found the file {} has compared the summary with it and then
\* replaced it
EmptyBaselineReplaced ==
    /\ pl_pc = "done"
    /\ run_start.file = JsonFile(EmptyDict)
    /\ detect_baseline = EmptyDict
    /\ save_result = TRUE
    /\ baseline_file /= run_start.file

(***************************************************************************)
(* C14  Degraded completion of a run.                                      *)
(***************************************************************************)
\* the stage main is at has failed on every attempt
StageExhausted ==
    /\ pl_pc \in Elements(Stages)
    /\ sc_pc = "done"
    /\ Exhausted

\* 0.5 s then 1.0 s for data loading, one sleep of 0.5 s for the others
SleepsOnExhaustion(stage) == IF stage = "data" THEN <<5, 10>> ELSE <<5>>

FallbackOnExhaustion ==
    StageExhausted =>
        /\ outcome.kind = "returned"
        /\ outcome.value = StageFallback(pl_pc)
        /\ sleeps = SleepsOnExhaustion(pl_pc)
        /\ Len(sleeps) <= max_retries

\* only an interrupt or a failing write ends main with an exception
NoStageFailureAborts ==
    pl_pc = "aborted" => abort_cause \in {"BaseException", "OSError"}

\* a run that ended normally went through every step, in order
RanEveryStep ==
    pl_pc = "done" =>
        SelectSeq(events, LAMBDA e : e \notin {"read_baseline", "save_baseline"})
          = <<"plan", "data">>
            \o (IF enable_drift_detection THEN <<"detect_drift">> ELSE <<>>)
            \o <<"insights", "validate", "creatives", "persist", "update_memory">>

\* a run in which a stage fell back
Degraded ==
    /\ pl_pc \notin {"idle", "done", "aborted"}
    /\ \E i \in DOMAIN stage_log : stage_log[i].fell_back

\* C14: a stage that fails on every attempt yields its fallback after the
\* sleeps 0.5 s, 1.0 s (data loading) or 0.5 s (the other stages); the run
\* goes on through every later step and ends; main raises only on an
\* interrupt or a failing write, never because a stage failed.
C14_DegradedCompletion ==
    /\ [](FallbackOnExhaustion /\ NoStageFailureAborts /\ RanEveryStep)
    /\ (Degraded ~> pl_pc \in {"done", "aborted"})

\* a run in which every stage fell back has ended normally
C14_Witness ==
    /\ pl_pc = "done"
    /\ Len(stage_log) = Len(Stages)
    /\ \A i \in DOMAIN stage_log : stage_log[i].fell_back

(***************************************************************************)
(* The pure functions, each called once on arguments drawn from a grid.    *)
(***************************************************************************)
MaxEvidence == 7

\* a call that was not made yet
Pending(f, a) == [fn |-> f, args |-> a, done |-> FALSE, result |-> None]

\* the call is made: r is what the function returns
Returns(r) == fn_call' = [fn_call EXCEPT !.done = TRUE, !.result = r]

Called(f) == fn_call.fn = f /\ fn_call.done

\* the thresholds _compute_adaptive_threshold can return
Thresholds == {StrictThreshold, StandardThreshold, RelaxedThreshold}

\* change magnitudes around the breakpoints T, 2T, 2.4T and 4T of the three
\* thresholds, in thousandths, and one far beyond them
Magnitudes ==
    {0, 1, 40, 79, 80, 99, 100, 120, 149, 150, 159, 160, 192, 199, 200, 225, 240,
     299, 300, 320, 360, 400, 450, 600, 1000000}

ConfidenceCalls ==
    { Pending("calculate_confidence",
              [change_pct |-> c, threshold |-> T, is_outlier_removed |-> o,
               evidence_count |-> n]) :
        c \in {None} \cup {Num(m) : m \in Magnitudes} \cup {Num(-m) : m \in Magnitudes},
        T \in Thresholds, o \in BOOLEAN, n \in 1..MaxEvidence }

\* InsightAgent._calculate_confidence(change_pct, threshold,
\* is_outlier_removed, evidence_count)
CalculateConfidence ==
    /\ fn_call.fn = "calculate_confidence"
    /\ ~fn_call.done
    /\ Returns(calculate_confidence(fn_call.args.change_pct, fn_call.args.threshold,
                                    fn_call.args.is_outlier_removed,
                                    fn_call.args.evidence_count))
    /\ UNCHANGED <<scVars, iaVars, ddVars, svVars, csVars, plVars>>

(***************************************************************************)
(* C21  The confidence is within [min_confidence, max_confidence].         *)
(***************************************************************************)
\* C21: for every change (0, None and very large ones included), every
\* threshold of {0.08, 0.10, 0.15}, either value of the robustness flag and
\* every evidence count >= 1, _calculate_confidence returns a value between
\* min_confidence and max_confidence.
C21_ConfidenceBounded ==
    Called("calculate_confidence") =>
        /\ min_confidence * 100 * fn_call.args.threshold <= fn_call.result
        /\ fn_call.result <= max_confidence * 100 * fn_call.args.threshold

\* the largest confidence the code produces, 0.94: a change beyond 2.4 T,
\* outliers removed, six or more evidence points
C21_Witness ==
    /\ Called("calculate_confidence")
    /\ fn_call.args.change_pct = Num(-1000000)
    /\ fn_call.args.is_outlier_removed
    /\ fn_call.args.evidence_count = MaxEvidence
    /\ fn_call.result = 9400 * fn_call.args.threshold

(***************************************************************************)
(* C27  The shape of the confidence.                                       *)
(***************************************************************************)
\* the base confidence as stated, times 10000 T: beyond 2T it rises from
\* 0.75 to 0.95, which it reaches at 4T
StatedBase(m, T) ==
    IF m < T THEN 4000 * T + 2000 * m
    ELSE IF m < 2 * T THEN 6000 * T + 1500 * (m - T)
    ELSE 7500 * T + Min(2000 * T, 1000 * (m - 2 * T))

\* the base confidence the code computes beyond 2T: it stops at 0.79,
\* reached at 2.4 T
CodeBase(m, T) ==
    IF m < T THEN 4000 * T + 2000 * m
    ELSE IF m < 2 * T THEN 6000 * T + 1500 * (m - T)
    ELSE 7500 * T + Min(400 * T, 1000 * (m - 2 * T))

\* the boosts added and the clamp applied
Shaped(base, T, o, n) ==
    LET boosted == base + (IF o THEN 500 * T ELSE 0)
                        + Min(1000 * T, (n - 1) * 200 * T)
    IN  Max(min_confidence * 100 * T, Min(max_confidence * 100 * T, boosted))

ShapeIs(Base(_, _)) ==
    (Called("calculate_confidence") /\ fn_call.args.change_pct /= None) =>
        fn_call.result =
            Shaped(Base(Abs(fn_call.args.change_pct.v), fn_call.args.threshold),
                   fn_call.args.threshold, fn_call.args.is_outlier_removed,
                   fn_call.args.evidence_count)

\* C27: the base confidence is 0.4 + 0.2 m/T below T, 0.6 + 0.15 (m - T)/T
\* from T to 2T, and from 2T on rises from 0.75 to the ceiling 0.95, reached
\* at 4T; then +0.05 for removed outliers and +0.02 per evidence point above
\* one (at most +0.10), clamped to [min_confidence, max_confidence].
C27_ConfidenceShape == ShapeIs(StatedBase)

\* what does hold: the same shape with the ceiling 0.79, reached at 2.4 T
ConfidenceShapeCeiling079 == ShapeIs(CodeBase)

\* a change of 4T, no boost: the code returns 0.79
ConfidenceAtFourT ==
    /\ Called("calculate_confidence")
    /\ fn_call.args.change_pct = Num(-400)
    /\ fn_call.args.threshold = StandardThreshold
    /\ ~fn_call.args.is_outlier_removed
    /\ fn_call.args.evidence_count = 1
    /\ fn_call.result = 7900 * StandardThreshold

(***************************************************************************)
(* C22  helpers.percent_change.                                            *)
(***************************************************************************)
\* a float result as the exact fraction num / den, den > 0
Ratio(n, d) == [kind |-> "ratio", num |-> n, den |-> d]
\* the default argument handed back
TheDefault == [kind |-> "default"]

\* helpers.percent_change(current, previous, default) (helpers.py:13-62)
percent_change(current, previous) ==
    IF current = None \/ previous = None THEN TheDefault
    ELSE IF ~IsNum(current) \/ ~IsNum(previous) THEN TheDefault
    ELSE IF current.v = 0 /\ previous.v = 0 THEN Ratio(0, 1)
    ELSE IF previous.v = 0 THEN TheDefault
    ELSE IF previous.v < 0 /\ current.v > 0
         THEN Ratio(Abs(current.v) - Abs(previous.v), Abs(previous.v))
    ELSE Ratio(current.v - previous.v, Abs(previous.v))

\* the arguments: None, a numeric string, and numbers of either sign
ChangeArguments ==
    {None, Str("5")} \cup {Num(v) : v \in {-200, -100, -50, 0, 50, 100, 200}}

PercentChangeCalls ==
    { Pending("percent_change", [current |-> c, previous |-> q]) :
        c \in ChangeArguments, q \in ChangeArguments }

PercentChange ==
    /\ fn_call.fn = "percent_change"
    /\ ~fn_call.done
    /\ Returns(percent_change(fn_call.args.current, fn_call.args.previous))
    /\ UNCHANGED <<scVars, iaVars, ddVars, svVars, csVars, plVars>>

Sign(n) == IF n > 0 THEN 1 ELSE IF n < 0 THEN -1 ELSE 0

BothNumbers(a) == IsNum(a.current) /\ IsNum(a.previous)

\* C22: for numbers current and previous /= 0, percent_change returns
\* (current - previous) / |previous|, whose sign is that of current - previous,
\* also for previous < 0 < current; for previous = 0 it returns 0.0 if
\* current = 0 and the default otherwise; for a None or non-numeric argument
\* it returns the default.
C22_RelativeDelta ==
    Called("percent_change") =>
        LET a == fn_call.args
            r == fn_call.result
        IN  IF ~BothNumbers(a) THEN r = TheDefault
            ELSE IF a.previous.v = 0
                 THEN IF a.current.v = 0 THEN r = Ratio(0, 1) ELSE r = TheDefault
            ELSE /\ r.kind = "ratio"
                 /\ r.num * Abs(a.previous.v) = (a.current.v - a.previous.v) * r.den
                 /\ Sign(r.num) = Sign(a.current.v - a.previous.v)

\* what does hold: the same, except where previous < 0 < current
RelativeDeltaUnlessCrossing ==
    (Called("percent_change")
       /\ ~(/\ BothNumbers(fn_call.args)
            /\ fn_call.args.previous.v < 0
            /\ fn_call.args.current.v > 0))
    => C22_RelativeDelta

\* percent_change(50, -100) has returned -0.5
CrossingReturnsDecrease ==
    /\ Called("percent_change")
    /\ fn_call.args = [current |-> Num(50), previous |-> Num(-100)]
    /\ fn_call.result = Ratio(-50, 100)

(***************************************************************************)
(* C28  The evaluator's confidence adjustment.                             *)
(***************************************************************************)
\* evidence with baseline b, absolute delta a (hundredths) and relative
\* delta r (thousandths)
AdjustmentEvidence(b, a, r) ==
    [baseline_value |-> Num(b), current_value |-> Num(b + a),
     absolute_delta |-> Num(a), relative_delta |-> Num(r),
     diagnosis |-> Str(<<"performance_variance">>)]

AdjustmentCalls ==
    { Pending("validate",
              [insight |-> [hypothesis |-> Str("h"),
                            evidence |-> AdjustmentEvidence(b, a, r),
                            confidence |-> Num(c)]]) :
        b \in {0, 1000, -1000},
        a \in {0, 100, -150, 151, -250, 251, -260, 600},
        r \in {0, -150, -151, -250, -251, 300},
        c \in {0, 10, 19, 20, 50, 80, 90, 91, 95, 100} }

\* EvaluatorAgent.validate on a list of the one insight: the ValidatedInsight
ValidateInsight ==
    /\ fn_call.fn = "validate"
    /\ ~fn_call.done
    /\ Returns(ValidateOne(fn_call.args.insight).out)
    /\ UNCHANGED <<scVars, iaVars, ddVars, svVars, csVars, plVars>>

\* normalized change n > c / 1000, as stated: n = |absolute delta| / |baseline|
\* for a baseline /= 0, |relative delta| otherwise
StatedExceeds(e, c) ==
    IF e.baseline_value.v /= 0
    THEN 1000 * Abs(e.absolute_delta.v) > c * Abs(e.baseline_value.v)
    ELSE Abs(e.relative_delta.v) > c

StatedAdjustment(c, e) ==
    LET high        == StatedExceeds(e, 250)
        significant == StatedExceeds(e, 150)
        c1 == IF high THEN Min(100, c + 10) ELSE c
    IN  IF ~significant THEN Max(0, c1 - 20) ELSE c1

\* C28: the validated confidence is round(c2, 2), where n = |absolute
\* delta| / |baseline| (|relative delta| for a baseline 0), the level is
\* 'high' iff n > 0.25, the change significant iff n > 0.15,
\* c1 = min(1.0, c + 0.1) if the level is 'high' else c and
\* c2 = max(0.0, c1 - 0.2) if the change is not significant else c1.
C28_ConfidenceAdjustment ==
    Called("validate") =>
        LET ins == fn_call.args.insight
            out == fn_call.result
        IN  /\ out.confidence = Num(StatedAdjustment(ins.confidence.v, ins.evidence))
            /\ out.statistical_validation.is_significant
                 = StatedExceeds(ins.evidence, 150)
            /\ out.statistical_validation.significance_level
                 = (IF StatedExceeds(ins.evidence, 250) THEN "high" ELSE "moderate")

\* both bounds at work: a penalty floored at 0 is reached
C28_Witness ==
    /\ Called("validate")
    /\ fn_call.args.insight.confidence = Num(10)
    /\ ~fn_call.result.statistical_validation.is_significant
    /\ fn_call.result.confidence = Num(0)

\* a boost capped at 1.0 is reached
BoostCapped ==
    /\ Called("validate")
    /\ fn_call.args.insight.confidence = Num(95)
    /\ fn_call.result.statistical_validation.significance_level = "high"
    /\ fn_call.result.confidence = Num(100)

(***************************************************************************)
(* C29  The diagnosis rule table.                                          *)
(***************************************************************************)
\* a drop item with the fields given (a field that is "absent" is left out)
Item(fields) ==
    [k \in {f \in DOMAIN fields : fields[f] /= Str("absent")} |-> fields[k]]

RoasDiagnosisItems ==
    { Item([relative_delta |-> r, spend |-> sp]) :
        r  \in {Num(v) : v \in {-500, -401, -400, -399, -201, -200, -199, -100, 0}}
               \cup {Str("absent")},
        sp \in {Num(v) : v \in {0, 3000, 5000, 5001, 12000}} \cup {Str("absent")} }

CtrDiagnosisItems ==
    { Item([relative_delta |-> r, impressions_change |-> imp]) :
        r   \in {Num(v) : v \in {-250, -151, -150, -149, -100, 0}} \cup {Str("absent")},
        \* None when the baseline impressions are 0 (data_agent.py:109)
        imp \in {Num(v) : v \in {20, -49, -50, -51, -100, -101, -200}}
                \cup {None, Str("absent")} }

DiagnosisCalls ==
    { Pending("diagnose_root_cause", [item |-> it, metric_type |-> "roas"]) :
        it \in RoasDiagnosisItems }
    \cup
    { Pending("diagnose_root_cause", [item |-> it, metric_type |-> "ctr"]) :
        it \in CtrDiagnosisItems }

\* InsightAgent._diagnose_root_cause(item, metric_type)
DiagnoseRootCause ==
    /\ fn_call.fn = "diagnose_root_cause"
    /\ ~fn_call.done
    /\ Returns(diagnose_root_cause(fn_call.args.item, fn_call.args.metric_type))
    /\ UNCHANGED <<scVars, iaVars, ddVars, svVars, csVars, plVars>>

\* the table as stated; a missing field counts as 0
StatedDiagnosis(item, metric_type) ==
    LET rel == Get(item, "relative_delta", Num(0)).v IN
    IF metric_type = "roas" THEN
        LET spend == Get(item, "spend", Num(0)).v
            tags  == (IF rel < -400 THEN <<"severe_performance_degradation">>
                      ELSE IF rel < -200 THEN <<"moderate_performance_decline">>
                      ELSE <<>>)
                     \o (IF spend > 5000 THEN <<"high_spend_inefficiency">> ELSE <<>>)
        IN  IF tags = <<>> THEN <<"performance_variance">> ELSE tags
    ELSE
        LET imp == Get(item, "impressions_change", Num(0)) IN
        IF rel < -150 /\ IsNum(imp) /\ imp.v > -50 THEN <<"creative_fatigue">>
        ELSE IF rel < -150 /\ IsNum(imp) /\ imp.v < -100 THEN <<"audience_saturation">>
        ELSE <<"engagement_decline">>

\* C29: for every drop item _diagnose_root_cause returns the tags of the
\* rule table: the decline tag (severe below -0.4, moderate below -0.2)
\* followed by high_spend_inefficiency for a spend above 5000, or
\* performance_variance when neither fires, for return on ad spend; exactly
\* one of creative_fatigue, audience_saturation and engagement_decline for
\* the click-through rate.
C29_DiagnosisTable ==
    Called("diagnose_root_cause") =>
        /\ ~fn_call.result.raised
        /\ fn_call.result.value
             = StatedDiagnosis(fn_call.args.item, fn_call.args.metric_type)

\* what does hold: the table, for the items the function returns for
DiagnosisTableWhenReturned ==
    (Called("diagnose_root_cause") /\ ~fn_call.result.raised) =>
        fn_call.result.value
          = StatedDiagnosis(fn_call.args.item, fn_call.args.metric_type)

\* a click-through-rate item with a drop of 25 % and impressions_change
\* None: the comparison None > -0.05 raises TypeError
DiagnosisRaises ==
    /\ Called("diagnose_root_cause")
    /\ fn_call.args.metric_type = "ctr"
    /\ fn_call.args.item = [relative_delta |-> Num(-250), impressions_change |-> None]
    /\ fn_call.result = Raise("TypeError")

(***************************************************************************)
(* C30  The adaptive threshold.                                            *)
(***************************************************************************)
MaxSample == 3

\* relative deltas in thousandths, a None and a string
SampleValues ==
    {None, Str("x")} \cup {Num(v) : v \in {-90, -110, -70, -130, -100, 100, 0}}

ThresholdCalls ==
    { Pending("compute_adaptive_threshold", [values |-> vs]) :
        vs \in SeqsUpTo(SampleValues, MaxSample) }

\* InsightAgent._compute_adaptive_threshold(values)
ComputeAdaptiveThreshold ==
    /\ fn_call.fn = "compute_adaptive_threshold"
    /\ ~fn_call.done
    /\ Returns(compute_adaptive_threshold(fn_call.args["values"]))
    /\ UNCHANGED <<scVars, iaVars, ddVars, svVars, csVars, plVars>>

\* CV * CV < num / den, for the numbers xs: with n numbers of mean mu the
\* population variance is (sum of (x - mu)^2) / n
RECURSIVE SquaredDeviations(_, _, _)
\* the sum of (n x - S)^2 over xs from position i on
SquaredDeviations(xs, i, S) ==
    IF i > Len(xs) THEN 0
    ELSE (Len(xs) * xs[i] - S) * (Len(xs) * xs[i] - S) + SquaredDeviations(xs, i + 1, S)

CvSquaredBelow(xs, num, den) ==
    \* variance / mu^2 = (sum of (n x - S)^2 / n^3) / (S^2 / n^2)
    den * SquaredDeviations(xs, 1, SumSeq(xs)) < num * Len(xs) * SumSeq(xs) * SumSeq(xs)

StatedThreshold(values) ==
    LET xs == NumericOnly(values) IN
    IF Len(xs) < 2 \/ SumSeq(xs) = 0 THEN 100
    ELSE IF CvSquaredBelow(xs, 1, 100) THEN 80
    ELSE IF CvSquaredBelow(xs, 9, 100) THEN 100
    ELSE 150

\* C30: _compute_adaptive_threshold returns 0.10 for fewer than two numeric
\* values or a mean of 0; otherwise 0.08 if CV < 0.1, 0.10 if
\* 0.1 <= CV < 0.3 and 0.15 if CV >= 0.3, CV being the population standard
\* deviation over |mean|; it returns one of the three and never raises.
C30_AdaptiveThreshold ==
    Called("compute_adaptive_threshold") =>
        /\ fn_call.result \in {80, 100, 150}
        /\ fn_call.result = StatedThreshold(fn_call.args["values"])

\* a stable sample (CV below 0.05) gets the strict threshold
C30_Witness ==
    /\ Called("compute_adaptive_threshold")
    /\ fn_call.args["values"] = <<Num(-100), Num(-110)>>
    /\ fn_call.result = 80

\* each band is reached
AllThresholdsReached ==
    /\ Called("compute_adaptive_threshold")
    /\ fn_call.args["values"] = <<Num(-70), None, Num(-130)>>
    /\ fn_call.result = 150

(***************************************************************************)
(* The specification of the function calls.                                *)
(***************************************************************************)
FunctionsInit ==
    /\ ScIdle /\ IaIdle /\ DdIdle /\ SvIdle /\ CsIdle /\ PlIdle
    /\ fn_call \in ConfidenceCalls \cup PercentChangeCalls \cup AdjustmentCalls
                     \cup DiagnosisCalls \cup ThresholdCalls

FunctionsNext ==
    \/ CalculateConfidence
    \/ PercentChange
    \/ ValidateInsight
    \/ DiagnoseRootCause
    \/ ComputeAdaptiveThreshold

SpecFunctions == FunctionsInit /\ [][FunctionsNext]_vars

(***************************************************************************)
(* C23  Spend from the DropRecord to the severity.                         *)
(***************************************************************************)
\* generate and validate have both returned, generate without a failure:
\* the first insights are those of the qualifying return-on-ad-spend
\* records, in order
ValidatedCleanly ==
    /\ ia_pc = "validated"
    /\ gen_error = None
    /\ ~validated.raised

SeverityFollows(Evidence(_)) ==
    ValidatedCleanly =>
        LET records == QualifyingOf("roas_drop_campaigns") IN
        \A i \in 1..Len(records) :
            /\ InsightOf(insights.insights[i], records[i], "roas_performance")
            /\ validated.validated[i].severity = SeverityRule(Evidence(records[i]))

WholeRecord(item) == item

WithoutSpend(item) == [k \in DOMAIN item \ {"spend"} |-> item[k]]

\* C23: the severity validate assigns to an insight generate produced from
\* a return-on-ad-spend DropRecord is the severity rule applied to that
\* record's relative delta, absolute delta, baseline and spend.
C23_SpendReachesSeverity == SeverityFollows(WholeRecord)

\* what does hold: the rule applied to the record without its spend
SeverityIgnoresSpend == SeverityFollows(WithoutSpend)

\* the record D (drop 12 %, spend 12,000) alone: rated 'low'
HighSpendRatedLow ==
    /\ ValidatedCleanly
    /\ DropsOf("roas_drop_campaigns") = <<RoasRecord("D", -120, 12000)>>
    /\ validated.validated[1].severity = "low"

(***************************************************************************)
(* C24  compute_stats on the relative deltas of the drop records.          *)
(***************************************************************************)
\* the run has computed the snapshot of its summary for detect_drift
SnapshotTaken == Started /\ Positions("detect_drift") /= {}

\* the relative deltas of a family's records
RelativeDeltas(items) == [i \in 1..Len(items) |-> items[i]["relative_delta"].v]

FamilyStatistics(key, name) ==
    LET items == summary["top_drops"][key] IN
    items /= <<>> =>
        /\ name \in DOMAIN detect_current.metrics
        /\ detect_current.metrics[name].mean
             = Num(RoundDiv(SumSeq(RelativeDeltas(items)), Len(items)))

\* C24: for a summary whose drop records carry relative_delta, as
\* DataAgent.summarize produces them, the snapshot of compute_stats holds,
\* for each family with at least one drop record, the statistics of that
\* family's relative deltas.
C24_RelativeDeltaStatistics ==
    SnapshotTaken =>
        /\ FamilyStatistics("roas_drop_campaigns", "roas_changes")
        /\ FamilyStatistics("ctr_drop_campaigns", "ctr_changes")

\* what does hold: the snapshot of a run never holds such statistics
NoChangeStatistics ==
    SnapshotTaken =>
        DOMAIN detect_current.metrics \cap {"roas_changes", "ctr_changes"} = {}

\* a run on a summary with one return-on-ad-spend drop record: the
\* snapshot counts it and holds no statistics of it
DropCountedWithoutStatistics ==
    /\ SnapshotTaken
    /\ summary["top_drops"]["roas_drop_campaigns"] = <<ScenarioARecord>>
    /\ detect_current.performance_drops.roas_count = Num(1)
    /\ "roas_changes" \notin DOMAIN detect_current.metrics

(***************************************************************************)
(* C25  validate and the insights it was given.                            *)
(***************************************************************************)
\* the evidence of the element holds every required field, or the element
\* is one whose evidence validate cannot assign into
NothingToFill(ins) ==
    \/ ~IsDict(ins)
    \/ ~IsDict(Get(ins, "evidence", EmptyDict))
    \/ "evidence" \notin DOMAIN ins
    \/ \A i \in 1..Len(required_fields) :
           required_fields[i] \in DOMAIN ins["evidence"]

\* C25: after validate returns or raises, every insight it was given,
\* evidence included, equals its value before the call.
C25_InputsReadOnly == [][ia_pc' = "validated" => insights' = insights]_vars

\* what does hold: insights with nothing to fill are left as they were
CompleteInputsReadOnly ==
    [][(/\ ia_pc' = "validated"
        /\ \A i \in 1..Len(insights["insights"]) :
               NothingToFill(insights["insights"][i]))
       => insights' = insights]_vars

\* an insight given with empty evidence holds the defaults of every
\* required field after the call
EmptyEvidenceFilled ==
    /\ ia_pc = "validated"
    /\ pl_pc = "off"
    /\ Len(insights["insights"]) = 1
    /\ insights["insights"][1]
         = [hypothesis |-> Str("h"), evidence |-> FillMissing(EmptyDict),
            confidence |-> Num(10)]

\* the fallback insights of a run whose insight stage fell back, after the
\* validation stage has run on them
FallbackEvidenceFilled ==
    /\ Started
    /\ \E i \in 1..Len(stage_log) :
           stage_log[i].stage = "insights" /\ stage_log[i].fell_back
    /\ Positions("validate") /= {}
    /\ insights["insights"][1].evidence = FillMissing(EmptyDict)

(***************************************************************************)
(* C26  the baseline file and a run whose data stage fell back.            *)
(***************************************************************************)
\* the data stage of the run returned FALLBACK_SUMMARY
DataFellBack ==
    \E i \in 1..Len(stage_log) :
        stage_log[i].stage = "data" /\ stage_log[i].fell_back

\* the snapshot of FALLBACK_SUMMARY: no campaigns, no drop records
SentinelStats == compute_stats(FALLBACK_SUMMARY)

\* C26: a run whose data stage exhausted its retries and fell back to
\* FALLBACK_SUMMARY never writes the baseline file: the file is as it was
\* when the run started.
C26_FallbackNeverWritesBaseline ==
    (Started /\ DataFellBack) => baseline_file = run_start.file

\* what does hold: such a run writes the file only when drift detection is
\* enabled and it loaded no baseline, or an empty one
FallbackWritesOnlyWithoutBaseline ==
    (Started /\ DataFellBack /\ baseline_file /= run_start.file) =>
        /\ enable_drift_detection
        /\ ~TruthyDoc(run_start.baseline)

\* a first run whose data stage fell back has installed the snapshot of
\* FALLBACK_SUMMARY as the baseline
SentinelBaselineInstalled ==
    /\ Started /\ runs = 1
    /\ DataFellBack
    /\ run_start.file = AbsentFile
    /\ baseline_file = JsonFile(SentinelStats)
    /\ SentinelStats.campaigns.count = Num(0)
    /\ SentinelStats.performance_drops.roas_count = Num(0)

\* the run after it loads that baseline; its data stage succeeds and
\* detect_drift reports nothing for a summary with campaigns and a drop
LaterRunComparesNothing ==
    /\ Started /\ runs = 2
    /\ IsDict(run_start.baseline)
    /\ run_start.file = JsonFile(SentinelStats)
    /\ Positions("detect_drift") /= {}
    /\ ~DataFellBack
    /\ detect_current.campaigns.count = Num(3)
    /\ detect_current.performance_drops.roas_count = Num(1)
    /\ drift.detections = <<>>
====
